---- MODULE Spec2Model ----
(***************************************************************************)
(* Verification model of the voice-entry backend:                          *)
(*   - the segment reconciliation of XunfeiASRService.transcribe_realtime  *)
(*     (rec_text / get_current_text),                                      *)
(*   - the duplex transcription session (voice_entry_websocket and the two *)
(*     pumps receive_from_xunfei / send_to_xunfei),                        *)
(*   - the Redis-backed task queue (QueueService).                         *)
(* Texts are sequences of tokens; "" is the empty sequence <<>>.           *)
(***************************************************************************)
EXTENDS Integers, Sequences, FiniteSets, TLC

\* ------------------------------------------------------------------ bounds
\* Largest sequence number (sn, rg bounds) the provider uses in the model.
MaxSeq == 2
\* Number of updates applied in one run of the reconciler specification.
MaxUpdates == 3

\* Messages the client sends over one connection.
MaxClientMsgs == 2
\* Messages the provider sends over one connection.
MaxProviderMsgs == 2
\* Messages the client and the provider send in the runs checked for progress.
MaxLiveClientMsgs == 2
MaxSendClientMsgs == 3

MaxLiveProviderMsgs == 1

\* Tasks enqueued in one run (task ids 1..MaxTasks).
MaxTasks == 2
\* Worker loops in the runs with several loops on one queue.
MaxWorkers == 2
\* main.py starts one worker loop.
MainWorkers == 1
\* Tasks enqueued in the runs where callers poll and records expire.
MaxStoreTasks == 1
\* QueueService(max_concurrent=...): the concurrency ceiling C of the run.
MaxConcurrent == 1
\* Register requests of one run, invitation codes, and uses a code allows.
MaxRegs == 3
MaxCodes == 2
MaxUses == 1
\* extract(..., max_retries=3): attempts of one extraction.
max_retries == 3
\* Largest ceiling of the runs where handlers overlap.
MaxBusyConcurrent == 2
\* QueueService(task_ttl=...): lifetime of a stored record, in clock ticks.
task_ttl == 2

Seqs == 0..MaxSeq

\* Stands for a result that has no "sn" field.
NoSn == -1
Texts == { <<>>, <<"a">>, <<"b">> }

VARIABLES
    rec_text,     \* dict[int, str] of transcribe_realtime, in insertion order
    rec_last,     \* history: the update applied last (NoUpdate before any)
    rec_prev,     \* history: rec_text before the update applied last
    rec_n,        \* history: number of updates applied
    rec_raw,      \* history: the result applied last, as the provider sent it
    available,    \* XunfeiASRService.available
    hpc,          \* where voice_entry_websocket stands
    rpc,          \* where receive_from_xunfei stands
    spc,          \* where send_to_xunfei stands
    recognition_done,   \* the asyncio.Event of transcribe_realtime
    full_text,    \* full_text of transcribe_realtime
    r_status,     \* receive pump: status of the result being handled
    s_msg,        \* send pump: type of the client message being handled
    client_in,    \* client messages not yet read by the server
    client_out,   \* messages sent to the client, oldest first
    xf_conn,      \* provider connection: none, open, peer_closed, closed
    xf_out,       \* provider messages not yet read by the receive pump
    xf_in,        \* frames sent to the provider in this session
    client_hist,  \* history: every message the client sent
    xf_hist,      \* history: every message the provider sent in this session
    client_left,  \* environment: messages the client may still send
    xf_left,      \* environment: messages the provider may still send
    terminal_seen,    \* history: recv() returned a result with status 2
    cancelled_early,  \* history: cancel was read before terminal_seen
    sess_base,    \* history: Len(client_out) when the session started
    r_exit,       \* history: how the receive pump left its loop in this session
    redis_conn,   \* QueueService._redis is not None
    reachable,    \* environment: the Redis server answers
    store,        \* Redis keys voice_entry:task:<id>, with their remaining TTL
    queue,        \* Redis list voice_entry:task_queue, head first
    processing_count,   \* QueueService._processing_count
    lock,         \* QueueService._lock: "free" or its holder
    handlers,     \* QueueService._handlers: the task types with a handler
    wpc,          \* per worker loop: where start_worker stands
    w_id,         \* per worker loop: task_id just popped (0: none)
    tasks,        \* per task id: enqueue call, Task object and its execution
    enq_left,     \* environment: enqueue calls still to come
    pool_size,    \* environment: worker loops the run may start
    max_concurrent,     \* QueueService.max_concurrent
    extract,      \* per task id: the call of QwenExtractorService.extract
    polled,       \* the last answer of get_task / get_result to a caller
    age,          \* history: ticks since the record was last written
    invitation,   \* per code: the committed invitation_codes row
    accounts,     \* the committed rows of accounts
    reg           \* per register request: where it stands and what it read

recVars == << rec_last, rec_prev, rec_n, rec_raw >>
sessVars == << available, hpc, rpc, spc, recognition_done, full_text, r_status,
               s_msg, client_in, client_out, xf_conn, xf_out, xf_in,
               client_hist, xf_hist, client_left, xf_left, terminal_seen,
               cancelled_early, sess_base, r_exit >>
queueVars == << redis_conn, reachable, store, queue, processing_count, lock,
                handlers, wpc, w_id, tasks, enq_left, pool_size,
                max_concurrent, extract, polled, age >>
ucVars == << invitation, accounts, reg >>
vars == << rec_text, recVars, sessVars, queueVars, ucVars >>

\* ------------------------------------------------- Python dict and helpers
\* A dict is the sequence of its <<key, value>> items in insertion order.
DictKeys(d) == { d[i][1] : i \in DOMAIN d }

DictHas(d, k) == k \in DictKeys(d)

DictGet(d, k) == d[CHOOSE i \in DOMAIN d : d[i][1] = k][2]

\* d[k] = v : an existing key keeps its position, a new key goes last.
DictSet(d, k, v) ==
    IF DictHas(d, k)
    THEN [i \in DOMAIN d |-> IF d[i][1] = k THEN <<k, v>> ELSE d[i]]
    ELSE Append(d, <<k, v>>)

\* d.pop(k, None)
DictPop(d, k) ==
    LET keep(item) == item[1] # k IN SelectSeq(d, keep)

\* for i in range(lo, hi): d.pop(i, None)
RECURSIVE DictPopRange(_, _, _)
DictPopRange(d, lo, hi) ==
    IF lo >= hi THEN d ELSE DictPopRange(DictPop(d, lo), lo + 1, hi)

SetMin(S) == CHOOSE m \in S : \A x \in S : m <= x

\* sorted(keys): ascending list of a set of integers
RECURSIVE Sorted(_)
Sorted(S) ==
    IF S = {} THEN <<>> ELSE LET m == SetMin(S) IN <<m>> \o Sorted(S \ {m})

\* "".join(parts)
RECURSIVE Join(_)
Join(parts) ==
    IF parts = <<>> THEN <<>> ELSE Head(parts) \o Join(Tail(parts))

\* --------------------------------------------------------- provider result
\* One provider message: code, data present or not, data.status, and the
\* result fields pgs, rg, sn and the words of ws (already concatenated).
NoUpdate == [code |-> 0, data |-> FALSE, status |-> 0, pgs |-> "apd",
             rg |-> <<>>, sn |-> 0, text |-> <<>>]

DataMsg(st, p, r, s, t) ==
    [code |-> 0, data |-> TRUE, status |-> st, pgs |-> p, rg |-> r,
     sn |-> s, text |-> t]

AppendUpdates == { DataMsg(1, "apd", <<>>, s, t) : s \in Seqs, t \in Texts }

\* pgs = "rpl" with a range [low, high]; the result's own sn is not read then
\* (line 298), it is taken as the newest number
ReplaceUpdates ==
    { DataMsg(1, "rpl", r, MaxSeq, t) : r \in Seqs \X Seqs, t \in Texts }

\* pgs = "rpl" whose rg is absent or too short: handled as an append (line 303)
ShortRanges == { <<>>, <<0>> }

RangelessUpdates ==
    { DataMsg(1, "rpl", r, s, t) : r \in ShortRanges, s \in Seqs, t \in Texts }

Updates == AppendUpdates \cup ReplaceUpdates \cup RangelessUpdates

IsReplacement(m) == m.pgs = "rpl" /\ m.rg # <<>> /\ Len(m.rg) >= 2

\* ------------------------------------------------------- segment reconciler
get_current_text_unsorted(d) ==
    Join([i \in DOMAIN d |-> d[i][2]])

get_current_text(d) ==
    IF d = <<>> THEN <<>>
    ELSE LET sorted_keys == Sorted(DictKeys(d))
         IN Join([i \in DOMAIN sorted_keys |-> DictGet(d, sorted_keys[i])])

\* StoreUpdate with the range end taken as exclusive: key high survives
StoreUpdate_exclusive_high(d, m) ==
    IF IsReplacement(m)
    THEN DictPopRange(DictSet(d, m.rg[1], m.text), m.rg[1] + 1, m.rg[2])
    ELSE DictSet(d, m.sn, m.text)

\* StoreUpdate where an append extends the fragment already held at sn
StoreUpdate_accumulate(d, m) ==
    IF IsReplacement(m)
    THEN DictPopRange(DictSet(d, m.rg[1], m.text), m.rg[1] + 1, m.rg[2] + 1)
    ELSE DictSet(d, m.sn,
                 (IF DictHas(d, m.sn) THEN DictGet(d, m.sn) ELSE <<>>) \o m.text)

\* lines 298-305: what one result does to rec_text once line 297 let it in
StoreUpdate(d, m) ==
    IF IsReplacement(m)
    THEN DictPopRange(DictSet(d, m.rg[1], m.text), m.rg[1] + 1, m.rg[2] + 1)
    ELSE DictSet(d, m.sn, m.text)

\* line 297 without the test of the fragment
Accepted_replacement_only(m) == m.pgs = "rpl"

\* line 297: an empty fragment is only taken from a replacement
Accepted(m) == m.text # <<>> \/ m.pgs = "rpl"

ApplyUpdate(d, m) == IF Accepted(m) THEN StoreUpdate(d, m) ELSE d

\* ------------------------------------------------------------ task records
TaskIds == 1..MaxTasks

Workers == 1..MaxWorkers

TaskTypes == { "text_extract", "voice_asr" }

\* The enqueue calls of the model: a task type with its payload.
Jobs == { << "text_extract", "p" >>, << "voice_asr", "q" >> }

\* An absent key (get returns None); a stored Task otherwise.
NoRecord == [present |-> FALSE, type |-> "none", status |-> "none",
             payload |-> "none", result |-> <<>>, error |-> <<>>, ttl |-> 0]

\* A task id not enqueued yet. Besides the Task object a coroutine holds
\* (type, status, payload, result, error) the record keeps where the task
\* stands (pc, mode) and its history: the payloads the handler was invoked
\* with, whether enqueue returned the id, whether the id was pushed on the
\* queue, whether a handler was registered for the type when enqueue was
\* called, whether get_result has returned its result, and how many times
\* the worker loops have scheduled its execution.
NoTask == [pc |-> "none", mode |-> "none", type |-> "none", status |-> "none",
           payload |-> "none", result |-> <<>>, error |-> <<>>,
           invoked |-> <<>>, returned |-> FALSE, pushed |-> FALSE,
           registered |-> FALSE, seen |-> FALSE, scheduled |-> 0]

\* ---- user centre: registration with an invitation code
Regs == 1..MaxRegs

Codes == 1..MaxCodes

\* Stands for a code no invitation_codes row has.
NoCode == 0

\* A register request not made yet: where it stands, the code it came with
\* and the used_count its SELECT returned.
NoReg == [pc |-> "idle", code |-> NoCode, seen |-> 0]

\* An extract call not made yet: where the call stands, the attempt of its
\* loop, and its history: the replies of the API and the waits made.
NoExtract == [pc |-> "idle", attempt |-> 0, replies |-> <<>>, waits |-> <<>>]

\* ------------------------------------------------------------------- init
\* connected: queue_service.connect() of main.py 41 has succeeded and the
\* handler of main.py 45-48 is registered.
InitRun(client_msgs, provider_msgs, enqueues, loops, ceilings, connected) ==
    /\ rec_text = <<>>
    /\ rec_last = NoUpdate
    /\ rec_prev = <<>>
    /\ rec_n = 0
    /\ rec_raw = NoUpdate
    /\ available \in BOOLEAN
    /\ hpc = "wait"
    /\ rpc = "none"
    /\ spc = "none"
    /\ recognition_done = FALSE
    /\ full_text = <<>>
    /\ r_status = 0
    /\ s_msg = "none"
    /\ client_in = <<>>
    /\ client_out = <<>>
    /\ xf_conn = "none"
    /\ xf_out = <<>>
    /\ xf_in = <<>>
    /\ client_hist = <<>>
    /\ xf_hist = <<>>
    /\ client_left = client_msgs
    /\ xf_left = provider_msgs
    /\ terminal_seen = FALSE
    /\ cancelled_early = FALSE
    /\ sess_base = 0
    /\ r_exit = "none"
    /\ redis_conn = connected
    /\ reachable = TRUE
    /\ store = [id \in TaskIds |-> NoRecord]
    /\ queue = <<>>
    /\ processing_count = 0
    /\ lock = "free"
    /\ handlers = IF connected THEN { "text_extract" } ELSE {}
    /\ wpc = [w \in Workers |-> "off"]
    /\ w_id = [w \in Workers |-> 0]
    /\ tasks = [id \in TaskIds |-> NoTask]
    /\ enq_left = enqueues
    /\ pool_size = loops
    /\ max_concurrent \in ceilings
    /\ extract = [id \in TaskIds |-> NoExtract]
    /\ invitation = [c \in Codes |-> [used_count |-> 0, max_uses |-> MaxUses]]
    /\ accounts = {}
    /\ reg = [r \in Regs |-> NoReg]
    /\ polled = [op |-> "none", id |-> 0, late |-> FALSE, raised |-> FALSE,
                 task |-> <<>>, result |-> <<>>]
    /\ age = [id \in TaskIds |-> 0]

InitWith(client_msgs, provider_msgs, enqueues, loops) ==
    InitRun(client_msgs, provider_msgs, enqueues, loops, { MaxConcurrent },
            FALSE)

Init == InitWith(MaxClientMsgs, MaxProviderMsgs, MaxTasks, MainWorkers)

\* A client with one message to spare after start and end.
InitSend ==
    InitWith(MaxSendClientMsgs, MaxLiveProviderMsgs, MaxTasks, MainWorkers)

InitLive ==
    InitWith(MaxLiveClientMsgs, MaxLiveProviderMsgs, MaxTasks, MainWorkers)

\* The queue service runs whether or not the speech provider is configured;
\* its runs start with the provider configured.
InitPool ==
    InitWith(MaxClientMsgs, MaxProviderMsgs, MaxTasks, MainWorkers) /\ available

InitWorkers ==
    InitWith(MaxClientMsgs, MaxProviderMsgs, MaxTasks, MaxWorkers) /\ available

InitStore ==
    /\ InitWith(MaxClientMsgs, MaxProviderMsgs, MaxStoreTasks, MainWorkers)
    /\ available

\* --------------------------------------- reconciler fed one update at a time
RecApply(m) ==
    /\ rec_n < MaxUpdates
    /\ rec_text' = ApplyUpdate(rec_text, m)
    /\ rec_last' = m
    /\ rec_prev' = rec_text
    /\ rec_n' = rec_n + 1
    /\ rec_raw' = m
    /\ UNCHANGED << sessVars, queueVars, ucVars >>

NextRec == \E m \in Updates : RecApply(m)

\* ------------------------------- results as sent, some without the "sn" field
\* xunfei_asr.py 280-283: a field the result lacks takes its default
ParseResult(raw) == [raw EXCEPT !.sn = IF raw.sn = NoSn THEN 0 ELSE raw.sn]

SnLessUpdates ==
    { DataMsg(1, "apd", <<>>, NoSn, t) : t \in Texts }
        \cup { DataMsg(1, "rpl", r, NoSn, t) : r \in Seqs \X Seqs, t \in Texts }

RawUpdates == Updates \cup SnLessUpdates

\* One result of the provider: parsed, then applied.
RecReceive(raw) ==
    /\ rec_n < MaxUpdates
    /\ rec_text' = ApplyUpdate(rec_text, ParseResult(raw))
    /\ rec_last' = ParseResult(raw)
    /\ rec_prev' = rec_text
    /\ rec_n' = rec_n + 1
    /\ rec_raw' = raw
    /\ UNCHANGED << sessVars, queueVars, ucVars >>

NextRaw == \E raw \in RawUpdates : RecReceive(raw)

InitRec == Init /\ available

SpecRec == InitRec /\ [][NextRec]_vars

SpecRaw == InitRec /\ [][NextRaw]_vars

\* ======================================================= transcription session
ClientMsgTypes == { "start", "audio", "end", "cancel" }

\* What the provider sends within a session: results with or without text,
\* appended or replacing, intermediate (status 1) or last (status 2), a
\* message without data, and an error reply (code # 0).
ErrorMsg == [code |-> 10165, data |-> FALSE, status |-> 0, pgs |-> "apd",
             rg |-> <<>>, sn |-> 0, text |-> <<>>]

SessionResults(st) ==
    { DataMsg(st, "apd", <<>>, 0, <<"a">>),
      DataMsg(st, "apd", <<>>, 1, <<"b">>),
      DataMsg(st, "apd", <<>>, 1, <<>>),
      DataMsg(st, "rpl", <<0, 1>>, MaxSeq, <<"b">>) }

ProviderMsgs == SessionResults(1) \cup SessionResults(2) \cup {NoUpdate, ErrorMsg}

ToClient(type, text) == [type |-> type, text |-> text]

Frame(kind) == [kind |-> kind, done |-> recognition_done, late |-> terminal_seen]

\* ---- environment: the client and the provider
\* The client has closed its websocket.
ClientGone == \E i \in DOMAIN client_hist : client_hist[i] = "disconnect"

\* send_json to the client returns, or raises once the client is gone: the
\* server may still accept the bytes of a connection the peer has closed.
ClientAccepts == IF ClientGone THEN BOOLEAN ELSE { TRUE }

ClientSend(m) ==
    /\ hpc # "closed"
    /\ ~ClientGone
    /\ client_left > 0
    /\ client_left' = client_left - 1
    /\ client_in' = Append(client_in, m)
    /\ client_hist' = Append(client_hist, m)
    /\ UNCHANGED << rec_text, recVars, available, hpc, rpc, spc,
                    recognition_done, full_text, r_status, s_msg, client_out,
                    xf_conn, xf_out, xf_in, xf_hist, xf_left, terminal_seen,
                    cancelled_early, sess_base, r_exit, queueVars, ucVars >>

\* The client closes the websocket: the server's receive_text raises
\* WebSocketDisconnect when it comes to this event, and from then on.
ClientDisconnect ==
    /\ hpc # "closed"
    /\ ~ClientGone
    /\ client_left > 0
    /\ client_left' = client_left - 1
    /\ client_in' = Append(client_in, "disconnect")
    /\ client_hist' = Append(client_hist, "disconnect")
    /\ UNCHANGED << rec_text, recVars, available, hpc, rpc, spc,
                    recognition_done, full_text, r_status, s_msg, client_out,
                    xf_conn, xf_out, xf_in, xf_hist, xf_left,
                    terminal_seen, cancelled_early, sess_base, r_exit, queueVars, ucVars >>

\* The provider stops after its last result or an error reply.
ProviderFinished ==
    \E i \in DOMAIN xf_hist : xf_hist[i].code # 0 \/ xf_hist[i].status = 2

ProviderSend(m) ==
    /\ xf_conn = "open"
    /\ ~ProviderFinished
    /\ xf_left > 0
    /\ xf_left' = xf_left - 1
    /\ xf_out' = Append(xf_out, m)
    /\ xf_hist' = Append(xf_hist, m)
    /\ UNCHANGED << rec_text, recVars, available, hpc, rpc, spc,
                    recognition_done, full_text, r_status, s_msg, client_in,
                    client_out, xf_conn, xf_in, client_hist, client_left, terminal_seen,
                    cancelled_early, sess_base, r_exit, queueVars, ucVars >>

\* The provider (or the network) closes the provider connection.
ProviderClose ==
    /\ xf_conn = "open"
    /\ xf_conn' = "peer_closed"
    /\ UNCHANGED << rec_text, recVars, available, hpc, rpc, spc,
                    recognition_done, full_text, r_status, s_msg, client_in,
                    client_out, xf_out, xf_in, client_hist, xf_hist, client_left, xf_left,
                    terminal_seen, cancelled_early, sess_base, r_exit, queueVars, ucVars >>

\* ---- voice_entry_websocket
\* voice.py 119-130, 168-174: one message read by the outer loop
HandlerReceive ==
    /\ hpc = "wait"
    /\ client_in # <<>>
    /\ client_in' = IF Head(client_in) = "disconnect" THEN client_in
                                                      ELSE Tail(client_in)
    /\ IF Head(client_in) = "start"
       THEN \E ok \in ClientAccepts :
            IF ok
            THEN /\ hpc' = "call"
                 /\ client_out' = Append(client_out, ToClient("status", <<>>))
                 /\ sess_base' = Len(client_out)
                 /\ terminal_seen' = FALSE
                 /\ cancelled_early' = FALSE
                 /\ r_exit' = "none"
            ELSE \* 125 raises, 178-186: the handler ends
                 /\ hpc' = "closed"
                 /\ UNCHANGED << client_out, sess_base, terminal_seen,
                                 cancelled_early, r_exit >>
       ELSE \* 168-177: cancel and a disconnect end the handler
            /\ hpc' = IF Head(client_in) \in { "cancel", "disconnect" }
                      THEN "closed" ELSE "wait"
            /\ UNCHANGED << client_out, sess_base, terminal_seen,
                            cancelled_early, r_exit >>
    /\ UNCHANGED << rec_text, recVars, available, rpc, spc, recognition_done,
                    full_text, r_status, s_msg, xf_conn, xf_out, xf_in,
                    client_hist, xf_hist, client_left, xf_left,
                    queueVars, ucVars >>

\* A handler that gives the connection up after a failed session.
AfterError_closes == "closed"

\* voice.py 159-166: the error is reported and the outer loop reads on
AfterError == "wait"

\* xunfei_asr.py 231 raises, voice.py 159-165 reports it
CallUnavailable ==
    /\ hpc = "call"
    /\ ~available
    /\ \E ok \in ClientAccepts :
          IF ok
          THEN /\ hpc' = AfterError
               /\ client_out' = Append(client_out, ToClient("error", <<>>))
          ELSE \* the send raises, and so does the error report: the handler ends
               /\ hpc' = "closed"
               /\ UNCHANGED client_out
    /\ UNCHANGED << rec_text, recVars, available, rpc, spc, recognition_done,
                    full_text, r_status, s_msg, client_in, xf_conn, xf_out,
                    xf_in, client_hist, xf_hist, client_left, xf_left, terminal_seen,
                    cancelled_early, sess_base, r_exit, queueVars, ucVars >>

\* A call that goes on with the segment map the last call left behind.
FreshSegments_kept == rec_text

\* xunfei_asr.py 234: rec_text is a new, empty dict in every call
FreshSegments == <<>>

\* xunfei_asr.py 232-250, 378-379: connected, first frame sent, pumps created
CallConnected ==
    /\ hpc = "call"
    /\ available
    /\ hpc' = "gather"
    /\ full_text' = <<>>
    /\ rec_text' = FreshSegments
    /\ recognition_done' = FALSE
    /\ xf_conn' = "open"
    /\ xf_out' = <<>>
    /\ xf_hist' = <<>>
    /\ xf_in' = << [kind |-> "first", done |-> FALSE, late |-> FALSE] >>
    /\ rpc' = "recv"
    /\ spc' = "poll"
    /\ UNCHANGED << recVars, available, r_status, s_msg, client_in, client_out,
                    client_hist, client_left, xf_left, terminal_seen, cancelled_early,
                    sess_base, r_exit, queueVars, ucVars >>

\* xunfei_asr.py 247/250 raise, 383-388 re-raise, voice.py 159-165 reports it
CallConnectFailed ==
    /\ hpc = "call"
    /\ available
    /\ \E ok \in ClientAccepts :
          IF ok
          THEN /\ hpc' = AfterError
               /\ client_out' = Append(client_out, ToClient("error", <<>>))
          ELSE \* the send raises, and so does the error report: the handler ends
               /\ hpc' = "closed"
               /\ UNCHANGED client_out
    /\ UNCHANGED << rec_text, recVars, available, rpc, spc, recognition_done,
                    full_text, r_status, s_msg, client_in, xf_conn, xf_out,
                    xf_in, client_hist, xf_hist, client_left, xf_left, terminal_seen,
                    cancelled_early, sess_base, r_exit, queueVars, ucVars >>

\* A wait that returns as soon as the send pump is over.
GatherReturns_early ==
    /\ hpc = "gather"
    /\ spc = "done"
    /\ hpc' = "stop"
    /\ spc' = "none"
    /\ xf_conn' = "closed"
    /\ UNCHANGED << rec_text, recVars, available, rpc, recognition_done, full_text,
                    r_status, s_msg, client_in, client_out, xf_out, xf_in,
                    client_hist, xf_hist, client_left, xf_left, terminal_seen,
                    cancelled_early, sess_base, r_exit, queueVars, ucVars >>

\* xunfei_asr.py 381, 390-394: both pumps are over, the connection is closed
GatherReturns ==
    /\ hpc = "gather"
    /\ rpc = "done"
    /\ spc = "done"
    /\ hpc' = "stop"
    /\ rpc' = "none"
    /\ spc' = "none"
    /\ xf_conn' = "closed"
    /\ xf_out' = <<>>
    /\ UNCHANGED << rec_text, recVars, available, recognition_done, full_text,
                    r_status, s_msg, client_in, client_out, xf_in, client_hist,
                    xf_hist, client_left, xf_left, terminal_seen, cancelled_early,
                    sess_base, r_exit, queueVars, ucVars >>

\* voice.py 143-146
SendStopRecording ==
    /\ hpc = "stop"
    /\ \E ok \in ClientAccepts :
          IF ok
          THEN /\ hpc' = "final"
               /\ client_out' = Append(client_out, ToClient("stop_recording", <<>>))
          ELSE \* the send raises, and so does the error report: the handler ends
               /\ hpc' = "closed"
               /\ UNCHANGED client_out
    /\ UNCHANGED << rec_text, recVars, available, rpc, spc, recognition_done,
                    full_text, r_status, s_msg, client_in, xf_conn, xf_out,
                    xf_in, client_hist, xf_hist, client_left, xf_left, terminal_seen,
                    cancelled_early, sess_base, r_exit, queueVars, ucVars >>

\* voice.py 150-154
SendTextFinal ==
    /\ hpc = "final"
    /\ \E ok \in ClientAccepts :
          IF ok
          THEN /\ hpc' = "wait"
               /\ client_out' = Append(client_out, ToClient("text_final", full_text))
          ELSE \* the send raises, and so does the error report: the handler ends
               /\ hpc' = "closed"
               /\ UNCHANGED client_out
    /\ UNCHANGED << rec_text, recVars, available, rpc, spc, recognition_done,
                    full_text, r_status, s_msg, client_in, xf_conn, xf_out,
                    xf_in, client_hist, xf_hist, client_left, xf_left, terminal_seen,
                    cancelled_early, sess_base, r_exit, queueVars, ucVars >>

\* ---- receive_from_xunfei
\* A partial that carries the fragment just received.
PartialPayload_fragment(full, fragment) == fragment

\* xunfei_asr.py 307-312: the partial carries full_text
PartialPayload(full, fragment) == full

\* xunfei_asr.py 261-321: one provider message, up to the next await
ReceiveMessage ==
    /\ rpc = "recv"
    /\ xf_out # <<>>
    /\ xf_out' = Tail(xf_out)
    /\ \E ok \in ClientAccepts :
       LET result == Head(xf_out)
       IN IF result.code # 0
          THEN \* 265-272: reported to the client, the pump leaves its loop;
               \* 326-328 when the report raises
               /\ client_out' = IF ok
                                 THEN Append(client_out, ToClient("error", <<>>))
                                 ELSE client_out
               /\ recognition_done' = (recognition_done \/ ~ok)
               /\ rpc' = "done"
               /\ r_exit' = IF ok THEN "error" ELSE "send_failed"
               /\ UNCHANGED << rec_text, full_text, r_status, terminal_seen >>
          ELSE IF ~result.data
          THEN \* 275: nothing to handle
               UNCHANGED << rec_text, full_text, recognition_done, r_status,
                            terminal_seen, client_out, rpc, r_exit >>
          ELSE /\ terminal_seen' = (terminal_seen \/ result.status = 2)
               /\ IF Accepted(result)
                  THEN \* 297-312: stored, and the partial is being sent
                       /\ rec_text' = StoreUpdate(rec_text, result)
                       /\ full_text' = get_current_text(rec_text')
                       /\ r_status' = result.status
                       /\ IF ok
                          THEN /\ client_out' =
                                    Append(client_out,
                                           ToClient("partial",
                                             PartialPayload(full_text',
                                                            result.text)))
                               /\ rpc' = "partial_sent"
                               /\ UNCHANGED << recognition_done, r_exit >>
                          ELSE \* 309 raises, 326-328
                               /\ recognition_done' = TRUE
                               /\ rpc' = "done"
                               /\ r_exit' = "send_failed"
                               /\ UNCHANGED client_out
                  ELSE \* 317-321 follow at once
                       /\ IF result.status = 2
                          THEN /\ full_text' = get_current_text(rec_text)
                               /\ recognition_done' = TRUE
                               /\ rpc' = "done"
                               /\ r_exit' = "final"
                          ELSE UNCHANGED << full_text, recognition_done, rpc,
                                           r_exit >>
                       /\ UNCHANGED << rec_text, client_out, r_status >>
    /\ UNCHANGED << recVars, available, hpc, spc, s_msg, client_in, xf_conn,
                    xf_in, client_hist, xf_hist, client_left, xf_left, cancelled_early,
                    sess_base, queueVars, ucVars >>

\* xunfei_asr.py 317-321, once send_json of the partial has returned
ReceiveAfterPartial ==
    /\ rpc = "partial_sent"
    /\ IF r_status = 2
       THEN /\ full_text' = get_current_text(rec_text)
            /\ recognition_done' = TRUE
            /\ rpc' = "done"
            /\ r_exit' = "final"
       ELSE /\ rpc' = "recv"
            /\ UNCHANGED << full_text, recognition_done, r_exit >>
    /\ UNCHANGED << rec_text, recVars, available, hpc, spc, r_status, s_msg,
                    client_in, client_out, xf_conn, xf_out, xf_in, client_hist,
                    xf_hist, client_left, xf_left, terminal_seen, cancelled_early,
                    sess_base, queueVars, ucVars >>

\* recv() awaited without a timeout: a silent provider is waited for forever
ReceiveTimeout_keeps_waiting ==
    /\ rpc = "recv"
    /\ xf_out = <<>>
    /\ xf_conn = "open"
    /\ UNCHANGED vars

\* xunfei_asr.py 261, 323-325: nothing from the provider for 30 seconds
ReceiveTimeout ==
    /\ rpc = "recv"
    /\ xf_out = <<>>
    /\ xf_conn = "open"
    /\ recognition_done' = TRUE
    /\ rpc' = "done"
    /\ r_exit' = "timeout"
    /\ UNCHANGED << rec_text, recVars, available, hpc, spc, full_text,
                    r_status, s_msg, client_in, client_out, xf_conn, xf_out,
                    xf_in, client_hist, xf_hist, client_left, xf_left, terminal_seen,
                    cancelled_early, sess_base, queueVars, ucVars >>

\* xunfei_asr.py 261, 326-328: recv() raises on the closed connection
ReceiveClosed ==
    /\ rpc = "recv"
    /\ xf_out = <<>>
    /\ xf_conn = "peer_closed"
    /\ recognition_done' = TRUE
    /\ rpc' = "done"
    /\ r_exit' = "closed"
    /\ UNCHANGED << rec_text, recVars, available, hpc, spc, full_text,
                    r_status, s_msg, client_in, client_out, xf_conn, xf_out,
                    xf_in, client_hist, xf_hist, client_left, xf_left, terminal_seen,
                    cancelled_early, sess_base, queueVars, ucVars >>

\* ---- send_to_xunfei
\* A send loop that does not look at the done event.
SendPoll_unchecked ==
    /\ spc = "poll"
    /\ spc' = "wait"
    /\ UNCHANGED << rec_text, recVars, available, hpc, rpc, recognition_done,
                    full_text, r_status, s_msg, client_in, client_out, xf_conn,
                    xf_out, xf_in, client_hist, xf_hist, client_left, xf_left,
                    terminal_seen, cancelled_early, sess_base, r_exit, queueVars, ucVars >>

\* xunfei_asr.py 334-336: the top of the loop
SendPoll ==
    /\ spc = "poll"
    /\ spc' = IF recognition_done THEN "done" ELSE "wait"
    /\ UNCHANGED << rec_text, recVars, available, hpc, rpc, recognition_done,
                    full_text, r_status, s_msg, client_in, client_out, xf_conn,
                    xf_out, xf_in, client_hist, xf_hist, client_left, xf_left,
                    terminal_seen, cancelled_early, sess_base, r_exit, queueVars, ucVars >>

\* xunfei_asr.py 339-342: receive_text() returns a client message
SendWaitMessage ==
    /\ spc = "wait"
    /\ client_in # <<>>
    /\ s_msg' = Head(client_in)
    /\ client_in' = IF Head(client_in) = "disconnect" THEN client_in
                                                      ELSE Tail(client_in)
    /\ spc' = "handle"
    /\ UNCHANGED << rec_text, recVars, available, hpc, rpc, recognition_done,
                    full_text, r_status, client_out, xf_conn, xf_out, xf_in,
                    client_hist, xf_hist, client_left, xf_left, terminal_seen,
                    cancelled_early, sess_base, r_exit, queueVars, ucVars >>

\* xunfei_asr.py 343-344: no client message within 0.5 seconds
SendWaitTimeout ==
    /\ spc = "wait"
    /\ client_in = <<>>
    /\ spc' = "poll"
    /\ UNCHANGED << rec_text, recVars, available, hpc, rpc, recognition_done,
                    full_text, r_status, s_msg, client_in, client_out, xf_conn,
                    xf_out, xf_in, client_hist, xf_hist, client_left, xf_left,
                    terminal_seen, cancelled_early, sess_base, r_exit, queueVars, ucVars >>

\* xunfei_asr.py 349-359
HandleAudio ==
    IF recognition_done
    THEN spc' = "poll" /\ UNCHANGED xf_in
    ELSE IF xf_conn = "open"
    THEN spc' = "poll" /\ xf_in' = Append(xf_in, Frame("audio"))
    ELSE spc' = "done" /\ UNCHANGED xf_in      \* send raises, 375-376

\* xunfei_asr.py 361-369
HandleEnd ==
    /\ spc' = "done"
    /\ IF ~recognition_done /\ xf_conn = "open"
       THEN xf_in' = Append(xf_in, Frame("last"))
       ELSE UNCHANGED xf_in

\* A cancel answered with the final frame.
HandleCancel_sends_last ==
    /\ spc' = "done"
    /\ xf_in' = Append(xf_in, Frame("last"))

\* xunfei_asr.py 371-373
HandleCancel ==
    /\ spc' = "done"
    /\ UNCHANGED xf_in

\* A send loop that reads again after the client has gone.
HandleDisconnect_retries ==
    /\ spc' = "poll"
    /\ UNCHANGED xf_in

\* xunfei_asr.py 339-342 raise WebSocketDisconnect, 375-376 end the pump
HandleDisconnect ==
    /\ spc' = "done"
    /\ UNCHANGED xf_in

\* xunfei_asr.py 346-376: the message just read, up to the next await
SendHandle ==
    /\ spc = "handle"
    /\ IF s_msg = "audio" THEN HandleAudio
       ELSE IF s_msg = "end" THEN HandleEnd
       ELSE IF s_msg = "cancel" THEN HandleCancel
       ELSE IF s_msg = "disconnect" THEN HandleDisconnect
       ELSE spc' = "poll" /\ UNCHANGED xf_in
    /\ cancelled_early' =
         (cancelled_early \/ (s_msg = "cancel" /\ ~terminal_seen))
    /\ UNCHANGED << rec_text, recVars, available, hpc, rpc, recognition_done,
                    full_text, r_status, s_msg, client_in, client_out, xf_conn,
                    xf_out, client_hist, xf_hist, client_left, xf_left, terminal_seen,
                    sess_base, r_exit, queueVars, ucVars >>

Handler ==
    \/ HandlerReceive
    \/ CallUnavailable
    \/ CallConnected
    \/ CallConnectFailed
    \/ GatherReturns
    \/ SendStopRecording
    \/ SendTextFinal

ReceivePump ==
    \/ ReceiveMessage
    \/ ReceiveAfterPartial
    \/ ReceiveTimeout
    \/ ReceiveClosed

SendPump ==
    \/ SendPoll
    \/ SendWaitMessage
    \/ SendWaitTimeout
    \/ SendHandle

Environment ==
    \/ \E m \in ClientMsgTypes : ClientSend(m)
    \/ \E m \in ProviderMsgs : ProviderSend(m)
    \/ ProviderClose

NextSession == Handler \/ ReceivePump \/ SendPump \/ Environment

SpecSession == Init /\ [][NextSession]_vars

SpecSend == InitSend /\ [][NextSession]_vars

\* ---- one recording: the client sends start, two audio chunks, then end
Scenario == << "start", "audio", "audio", "end" >>

ScenarioClientSend ==
    /\ Len(client_hist) < Len(Scenario)
    /\ ClientSend(Scenario[Len(client_hist) + 1])

InitScenario ==
    InitWith(Len(Scenario), MaxProviderMsgs, MaxTasks, MainWorkers)

NextScenario ==
    \/ Handler
    \/ ReceivePump
    \/ SendPump
    \/ ScenarioClientSend
    \/ \E m \in ProviderMsgs : ProviderSend(m)
    \/ ProviderClose

SpecScenario == InitScenario /\ [][NextScenario]_vars

\* The event loop runs every ready task, and every await on the network ends
\* with a message, an error or its timeout.
FairSpecSession ==
    /\ InitLive
    /\ [][NextSession]_vars
    /\ WF_vars(Handler)
    /\ WF_vars(ReceivePump)
    /\ WF_vars(SendPump)

\* A connection the client may drop at any moment.
NextDrop == NextSession \/ ClientDisconnect

SpecDrop == InitLive /\ [][NextDrop]_vars

FairSpecDrop ==
    /\ SpecDrop
    /\ WF_vars(Handler)
    /\ WF_vars(ReceivePump)
    /\ WF_vars(SendPump)

\* ============================================================ QueueService
\* A Redis command issued now raises: the client exists, the server is away.
StoreFails == redis_conn /\ ~reachable

\* Redis SETEX of a task record: the key lives task_ttl ticks from now.
Setex(id, type, status, payload, result, error) ==
    /\ store' = [store EXCEPT ![id] =
                    [present |-> TRUE, type |-> type, status |-> status,
                     payload |-> payload, result |-> result, error |-> error,
                     ttl |-> task_ttl]]
    /\ age' = [age EXCEPT ![id] = 0]

\* A write that leaves the key the lifetime it has left.
UpdateTtl_kept(id) == store[id].ttl

\* 208-212: setex with self.task_ttl, as enqueue does.
UpdateTtl(id) == task_ttl

\* _update_task: writes the task object back, only while connected; nothing
\* is written either when setex raises.
update_task(id, t) ==
    IF redis_conn /\ reachable
    THEN /\ store' = [store EXCEPT ![id] =
                         [present |-> TRUE, type |-> t.type,
                          status |-> t.status, payload |-> t.payload,
                          result |-> t.result, error |-> t.error,
                          ttl |-> UpdateTtl(id)]]
         /\ age' = [age EXCEPT ![id] = 0]
    ELSE UNCHANGED << store, age >>

\* The value get_task returns now: <<>> for None, <<task>> otherwise
\* (<<>> also stands for the call raising, see StoreFails).
get_task(id) ==
    IF redis_conn /\ reachable /\ store[id].present
    THEN << [status |-> store[id].status, result |-> store[id].result] >>
    ELSE <<>>

\* A get_result that does not look at the status.
get_result_any_status(id) ==
    IF get_task(id) # <<>> THEN << get_task(id)[1].result >> ELSE <<>>

\* The value get_result returns now: <<>> for None, <<result>> otherwise.
get_result(id) ==
    IF get_task(id) # <<>> /\ get_task(id)[1].status = "completed"
    THEN << get_task(id)[1].result >>
    ELSE <<>>

\* The dictionary get_queue_stats returns now.
get_queue_stats ==
    IF ~redis_conn
    THEN [connected |-> FALSE, queue_length |-> 0, processing |-> 0]
    ELSE [connected |-> TRUE, queue_length |-> Len(queue),
          processing |-> processing_count]

\* What a handler returns for a payload.
HandlerResult(p) == << "ok", p >>

HandlerError == << "error" >>

\* str(e) of the exception a Redis command raised.
StoreError == << "store error" >>

\* ---- the Redis server and the network to it
RedisDown ==
    /\ reachable
    /\ reachable' = FALSE
    /\ UNCHANGED << rec_text, recVars, sessVars, redis_conn, store, queue,
                    processing_count, lock, handlers, wpc, w_id, tasks,
                    enq_left, pool_size, max_concurrent, extract, ucVars, polled, age >>

RedisUp ==
    /\ ~reachable
    /\ reachable' = TRUE
    /\ UNCHANGED << rec_text, recVars, sessVars, redis_conn, store, queue,
                    processing_count, lock, handlers, wpc, w_id, tasks,
                    enq_left, pool_size, max_concurrent, extract, ucVars, polled, age >>

\* ---- connect, disconnect, register_handler
\* connect: the client is kept when ping() answers, dropped when it raises.
Connect ==
    /\ redis_conn' = reachable
    /\ UNCHANGED << rec_text, recVars, sessVars, reachable, store, queue,
                    processing_count, lock, handlers, wpc, w_id, tasks,
                    enq_left, pool_size, max_concurrent, extract, ucVars, polled, age >>

Disconnect ==
    /\ redis_conn
    /\ redis_conn' = FALSE
    /\ UNCHANGED << rec_text, recVars, sessVars, reachable, store, queue,
                    processing_count, lock, handlers, wpc, w_id, tasks,
                    enq_left, pool_size, max_concurrent, extract, ucVars, polled, age >>

register_handler(t) ==
    /\ handlers' = handlers \cup { t }
    /\ UNCHANGED << rec_text, recVars, sessVars, redis_conn, reachable, store,
                    queue, processing_count, lock, wpc, w_id, tasks, enq_left,
                    pool_size, max_concurrent, extract, ucVars, polled, age >>

\* ---- enqueue
\* The id of the next task (uuid4: an id no earlier task has).
NextId == 1 + Cardinality({ id \in TaskIds : tasks[id].pc # "none" })

\* Disconnected branch without create_task: the task is never scheduled.
ScheduleDirect_forgotten == "done"

\* asyncio.create_task(self._process_task_directly(task))
ScheduleDirect == "dstart"

\* enqueue up to its first await: the record is stored with status pending,
\* or setex raises; without a client the task is scheduled directly and the
\* id returned at once.
Enqueue(t, p) ==
    /\ enq_left > 0
    /\ enq_left' = enq_left - 1
    /\ LET task == [NoTask EXCEPT !.type = t, !.payload = p,
                                  !.status = "pending",
                                  !.registered = t \in handlers]
       IN  IF redis_conn /\ reachable
           THEN /\ Setex(NextId, t, "pending", p, <<>>, <<>>)
                /\ tasks' = [tasks EXCEPT ![NextId] =
                                [task EXCEPT !.pc = "stored",
                                             !.mode = "durable"]]
           ELSE IF redis_conn
           THEN /\ tasks' = [tasks EXCEPT ![NextId] =
                                [task EXCEPT !.pc = "raised"]]
                /\ UNCHANGED << store, age >>
           ELSE /\ tasks' = [tasks EXCEPT ![NextId] =
                                [task EXCEPT !.pc = ScheduleDirect,
                                             !.mode = "direct",
                                             !.returned = TRUE]]
                /\ UNCHANGED << store, age >>
    /\ UNCHANGED << rec_text, recVars, sessVars, redis_conn, reachable, queue,
                    processing_count, lock, handlers, wpc, w_id, pool_size, max_concurrent, extract, ucVars,
                    polled >>

\* enqueue after setex: lpush and return the id; lpush raises when the
\* server is away by now or disconnect() has set _redis to None in between.
EnqueuePush(id) ==
    /\ tasks[id].pc = "stored"
    /\ IF redis_conn /\ reachable
       THEN /\ queue' = << id >> \o queue
            /\ tasks' = [tasks EXCEPT ![id].pc = "queued",
                                      ![id].pushed = TRUE,
                                      ![id].returned = TRUE]
       ELSE /\ tasks' = [tasks EXCEPT ![id].pc = "raised"]
            /\ UNCHANGED queue
    /\ UNCHANGED << rec_text, recVars, sessVars, redis_conn, reachable, store,
                    processing_count, lock, handlers, wpc, w_id, enq_left,
                    pool_size, max_concurrent, extract, ucVars, polled, age >>

\* ---- _process_task_directly
DirectBegin(id) ==
    /\ tasks[id].pc = "dstart"
    /\ IF tasks[id].type \in handlers
       THEN tasks' = [tasks EXCEPT ![id].pc = "dhandler",
                                   ![id].status = "processing",
                                   ![id].invoked =
                                       Append(@, tasks[id].payload)]
       ELSE tasks' = [tasks EXCEPT ![id].pc = "done"]
    /\ UNCHANGED << rec_text, recVars, sessVars, redis_conn, reachable, store,
                    queue, processing_count, lock, handlers, wpc, w_id,
                    enq_left, pool_size, max_concurrent, extract, ucVars, polled, age >>

DirectHandlerReturns(id) ==
    /\ tasks[id].pc = "dhandler"
    /\ tasks' = [tasks EXCEPT ![id].pc = "done",
                              ![id].status = "completed",
                              ![id].result = HandlerResult(tasks[id].payload)]
    /\ UNCHANGED << rec_text, recVars, sessVars, redis_conn, reachable, store,
                    queue, processing_count, lock, handlers, wpc, w_id,
                    enq_left, pool_size, max_concurrent, extract, ucVars, polled, age >>

DirectHandlerRaises(id) ==
    /\ tasks[id].pc = "dhandler"
    /\ tasks' = [tasks EXCEPT ![id].pc = "done",
                              ![id].status = "failed",
                              ![id].error = HandlerError]
    /\ UNCHANGED << rec_text, recVars, sessVars, redis_conn, reachable, store,
                    queue, processing_count, lock, handlers, wpc, w_id,
                    enq_left, pool_size, max_concurrent, extract, ucVars, polled, age >>

\* ---- start_worker
\* The ceiling test with > in place of >=.
AtCeiling_off_by_one == processing_count > max_concurrent

\* if self._processing_count >= self.max_concurrent
AtCeiling == processing_count >= max_concurrent

\* A pop that leaves the id on the list.
QueueAfterPop_peek == queue

\* BRPOP removes the id it returns from the tail of the list.
QueueAfterPop == SubSeq(queue, 1, Len(queue) - 1)

\* Where a popped id ends when the loop gives it up: its record is gone
\* ("dropped"), or its record is still stored and nothing will run it ("lost").
Abandoned(id) == IF store[id].present THEN "lost" ELSE "dropped"

\* start_worker up to its loop; it returns at once without Redis.
StartWorker(w) ==
    /\ w <= pool_size
    /\ wpc[w] = "off"
    /\ wpc' = [wpc EXCEPT ![w] = IF redis_conn THEN "check" ELSE "off"]
    /\ UNCHANGED << rec_text, recVars, sessVars, redis_conn, reachable, store,
                    queue, processing_count, lock, handlers, w_id, tasks,
                    enq_left, pool_size, max_concurrent, extract, ucVars, polled, age >>

\* Top of the loop: under the lock, sleep at the ceiling (the lock stays
\* held during the sleep), otherwise go on to brpop.
WorkerCheck(w) ==
    /\ wpc[w] = "check"
    /\ lock = "free"
    /\ IF AtCeiling
       THEN wpc' = [wpc EXCEPT ![w] = "sleep"] /\ lock' = "worker"
       ELSE wpc' = [wpc EXCEPT ![w] = "brpop"] /\ UNCHANGED lock
    /\ UNCHANGED << rec_text, recVars, sessVars, redis_conn, reachable, store,
                    queue, processing_count, handlers, w_id, tasks, enq_left,
                    pool_size, max_concurrent, extract, ucVars, polled, age >>

\* asyncio.sleep(0.1) is over: the lock is released, continue.
WorkerWake(w) ==
    /\ wpc[w] = "sleep"
    /\ wpc' = [wpc EXCEPT ![w] = "check"]
    /\ lock' = "free"
    /\ UNCHANGED << rec_text, recVars, sessVars, redis_conn, reachable, store,
                    queue, processing_count, handlers, w_id, tasks, enq_left,
                    pool_size, max_concurrent, extract, ucVars, polled, age >>

\* brpop returns: an id from the tail, nothing after the timeout, or it
\* raises (no client, or the server is away) and the loop backs off in its
\* except branch.
WorkerPop(w) ==
    /\ wpc[w] = "brpop"
    /\ IF ~redis_conn \/ ~reachable
       THEN wpc' = [wpc EXCEPT ![w] = "backoff"] /\ UNCHANGED << queue, w_id >>
       ELSE IF queue = <<>>
       THEN wpc' = [wpc EXCEPT ![w] = "check"] /\ UNCHANGED << queue, w_id >>
       ELSE /\ wpc' = [wpc EXCEPT ![w] = "lookup"]
            /\ w_id' = [w_id EXCEPT ![w] = queue[Len(queue)]]
            /\ queue' = QueueAfterPop
    /\ UNCHANGED << rec_text, recVars, sessVars, redis_conn, reachable, store,
                    processing_count, lock, handlers, tasks, enq_left,
                    pool_size, max_concurrent, extract, ucVars, polled, age >>

\* asyncio.sleep(1) of the except branch is over.
WorkerBackoff(w) ==
    /\ wpc[w] = "backoff"
    /\ wpc' = [wpc EXCEPT ![w] = "check"]
    /\ UNCHANGED << rec_text, recVars, sessVars, redis_conn, reachable, store,
                    queue, processing_count, lock, handlers, w_id, tasks,
                    enq_left, pool_size, max_concurrent, extract, ucVars, polled, age >>

\* A loop that awaits the execution it has started.
AfterDispatch_awaits == "awaiting"

\* asyncio.create_task returns at once: the loop goes on to its next round.
AfterDispatch == "check"

\* The counter is incremented under the lock and _process_task scheduled
\* with the task read from the store.
Dispatch(id, task) ==
    /\ processing_count' = processing_count + 1
    /\ tasks' = [tasks EXCEPT ![id].pc = "start",
                              ![id].scheduled = @ + 1,
                              ![id].type = task.type,
                              ![id].payload = task.payload,
                              ![id].status = task.status]

\* get_task returns. Without a client it returns None and with no record
\* too: the id is skipped. When it raises the loop backs off. With a record
\* the task is dispatched, once the lock is free (another loop may hold it
\* while it sleeps at the ceiling).
WorkerLookup(w) ==
    /\ wpc[w] = "lookup" \/ (wpc[w] = "inc" /\ lock = "free")
    /\ IF wpc[w] = "lookup" /\ (~redis_conn \/ ~reachable)
       THEN /\ wpc' = [wpc EXCEPT ![w] =
                          IF redis_conn THEN "backoff" ELSE "check"]
            /\ w_id' = [w_id EXCEPT ![w] = 0]
            /\ tasks' = [tasks EXCEPT ![w_id[w]].pc = Abandoned(w_id[w])]
            /\ UNCHANGED processing_count
       ELSE IF wpc[w] = "lookup" /\ ~store[w_id[w]].present
       THEN /\ wpc' = [wpc EXCEPT ![w] = "check"]
            /\ w_id' = [w_id EXCEPT ![w] = 0]
            /\ tasks' = [tasks EXCEPT ![w_id[w]].pc = "dropped"]
            /\ UNCHANGED processing_count
       ELSE IF lock = "free"
       THEN /\ wpc' = [wpc EXCEPT ![w] = AfterDispatch]
            /\ w_id' = [w_id EXCEPT ![w] = 0]
            /\ Dispatch(w_id[w], IF wpc[w] = "lookup" THEN store[w_id[w]]
                                  ELSE tasks[w_id[w]])
       ELSE /\ wpc' = [wpc EXCEPT ![w] = "inc"]
            /\ tasks' = [tasks EXCEPT
                           ![w_id[w]].type = store[w_id[w]].type,
                           ![w_id[w]].payload = store[w_id[w]].payload,
                           ![w_id[w]].status = store[w_id[w]].status]
            /\ UNCHANGED << w_id, processing_count >>
    /\ UNCHANGED << rec_text, recVars, sessVars, redis_conn, reachable, store,
                    queue, lock, handlers, enq_left, pool_size, max_concurrent, extract, ucVars, polled, age >>

\* worker_task.cancel(): CancelledError at the await the loop stands at.
CancelWorker(w) ==
    /\ wpc[w] # "off"
    /\ wpc' = [wpc EXCEPT ![w] = "off"]
    /\ w_id' = [w_id EXCEPT ![w] = 0]
    /\ lock' = IF wpc[w] = "sleep" THEN "free" ELSE lock
    /\ tasks' = IF wpc[w] \in { "lookup", "inc" }
                THEN [tasks EXCEPT ![w_id[w]].pc = Abandoned(w_id[w])]
                ELSE tasks
    /\ UNCHANGED << rec_text, recVars, sessVars, redis_conn, reachable, store,
                    queue, processing_count, handlers, enq_left, pool_size, max_concurrent, extract, ucVars,
                    polled, age >>

\* ---- _process_task
\* Up to the handler call: without a handler the task fails; with one the
\* record is written as processing and the handler invoked. When the write
\* raises, the except branch marks the task failed and goes on to write it.
ExecBegin(id) ==
    /\ tasks[id].pc = "start"
    /\ LET t == IF tasks[id].type \notin handlers
                THEN [tasks[id] EXCEPT !.pc = IF StoreFails THEN "failing"
                                                           ELSE "cleanup",
                                       !.status = "failed",
                                       !.error = IF StoreFails THEN StoreError
                                                 ELSE << "no handler" >>]
                ELSE IF StoreFails
                THEN [tasks[id] EXCEPT !.pc = "failing",
                                       !.status = "failed",
                                       !.error = StoreError]
                ELSE [tasks[id] EXCEPT !.pc = "handler",
                                       !.status = "processing",
                                       !.invoked = Append(@, tasks[id].payload)]
       IN  /\ tasks' = [tasks EXCEPT ![id] = t]
           /\ update_task(id, t)
    /\ UNCHANGED << rec_text, recVars, sessVars, redis_conn, reachable, queue,
                    processing_count, lock, handlers, wpc, w_id, enq_left,
                    pool_size, max_concurrent, extract, ucVars, polled >>

ExecHandlerReturns(id) ==
    /\ tasks[id].pc = "handler"
    /\ LET r == HandlerResult(tasks[id].payload)
           t == IF StoreFails
                THEN [tasks[id] EXCEPT !.pc = "failing", !.result = r,
                                       !.status = "failed",
                                       !.error = StoreError]
                ELSE [tasks[id] EXCEPT !.pc = "cleanup", !.result = r,
                                       !.status = "completed"]
       IN  /\ tasks' = [tasks EXCEPT ![id] = t]
           /\ update_task(id, t)
    /\ UNCHANGED << rec_text, recVars, sessVars, redis_conn, reachable, queue,
                    processing_count, lock, handlers, wpc, w_id, enq_left,
                    pool_size, max_concurrent, extract, ucVars, polled >>

ExecHandlerRaises(id) ==
    /\ tasks[id].pc = "handler"
    /\ LET t == [tasks[id] EXCEPT !.pc = "cleanup",
                                  !.status = "failed",
                                  !.error = HandlerError]
       IN  /\ tasks' = [tasks EXCEPT ![id] = t]
           /\ update_task(id, t)
    /\ UNCHANGED << rec_text, recVars, sessVars, redis_conn, reachable, queue,
                    processing_count, lock, handlers, wpc, w_id, enq_left,
                    pool_size, max_concurrent, extract, ucVars, polled >>

\* 301-304 after a write of 280-298 raised: the task, now failed, is written
\* again; when this write raises too the exception leaves the task through
\* finally.
ExecFailWrite(id) ==
    /\ tasks[id].pc = "failing"
    /\ tasks' = [tasks EXCEPT ![id].pc = "cleanup"]
    /\ update_task(id, tasks[id])
    /\ UNCHANGED << rec_text, recVars, sessVars, redis_conn, reachable, queue,
                    processing_count, lock, handlers, wpc, w_id, enq_left,
                    pool_size, max_concurrent, extract, ucVars, polled >>

\* The decrement at the end of the try block: skipped when something raised.
ExecCleanup_not_finally(id) ==
    /\ tasks[id].pc = "cleanup"
    /\ lock = "free"
    /\ processing_count' = IF tasks[id].status = "completed"
                           THEN processing_count - 1 ELSE processing_count
    /\ tasks' = [tasks EXCEPT ![id].pc = "done"]
    /\ UNCHANGED << rec_text, recVars, sessVars, redis_conn, reachable, store,
                    queue, lock, handlers, wpc, w_id, enq_left, pool_size, max_concurrent, extract, ucVars,
                    polled, age >>

\* finally: the counter is decremented under the lock.
ExecCleanup(id) ==
    /\ tasks[id].pc = "cleanup"
    /\ lock = "free"
    /\ processing_count' = processing_count - 1
    /\ tasks' = [tasks EXCEPT ![id].pc = "done"]
    /\ UNCHANGED << rec_text, recVars, sessVars, redis_conn, reachable, store,
                    queue, lock, handlers, wpc, w_id, enq_left, pool_size, max_concurrent, extract, ucVars,
                    polled, age >>

\* ---- get_task, get_result as called by the holder of an id
\* A read that renews the key's lifetime.
ReadTtl_refreshed(id) ==
    [store EXCEPT ![id].ttl = IF store[id].present /\ redis_conn /\ reachable
                              THEN task_ttl ELSE @]

\* Redis GET leaves the key's lifetime alone.
ReadTtl(id) == store

GetTask(id) ==
    /\ tasks[id].returned
    /\ polled' = [op |-> "get_task", id |-> id,
                  late |-> age[id] >= task_ttl, raised |-> StoreFails,
                  task |-> get_task(id), result |-> <<>>]
    /\ store' = ReadTtl(id)
    /\ UNCHANGED << rec_text, recVars, sessVars, redis_conn, reachable, queue,
                    processing_count, lock, handlers, wpc, w_id, tasks,
                    enq_left, pool_size, max_concurrent, extract, ucVars, age >>

GetResult(id) ==
    /\ tasks[id].returned
    /\ polled' = [op |-> "get_result", id |-> id,
                  late |-> age[id] >= task_ttl, raised |-> StoreFails,
                  task |-> get_task(id), result |-> get_result(id)]
    /\ tasks' = [tasks EXCEPT ![id].seen = @ \/ get_result(id) # <<>>]
    /\ store' = ReadTtl(id)
    /\ UNCHANGED << rec_text, recVars, sessVars, redis_conn, reachable, queue,
                    processing_count, lock, handlers, wpc, w_id, enq_left,
                    pool_size, max_concurrent, extract, ucVars, age >>

\* get_result called with an id that no enqueue call has returned.
ProbeResult(id) ==
    /\ tasks[id].pc = "none"
    /\ polled' = [op |-> "get_result", id |-> id, late |-> FALSE,
                  raised |-> StoreFails, task |-> get_task(id),
                  result |-> get_result(id)]
    /\ store' = ReadTtl(id)
    /\ UNCHANGED << rec_text, recVars, sessVars, redis_conn, reachable, queue,
                    processing_count, lock, handlers, wpc, w_id, tasks,
                    enq_left, pool_size, max_concurrent, extract, ucVars, age >>

\* ---- Redis clock: one tick of the keys' lifetimes
Tick ==
    /\ store' = [id \in TaskIds |->
                    IF ~store[id].present THEN store[id]
                    ELSE IF store[id].ttl = 1 THEN NoRecord
                    ELSE [store[id] EXCEPT !.ttl = @ - 1]]
    /\ age' = [id \in TaskIds |->
                  IF tasks[id].mode = "durable" /\ age[id] < task_ttl
                  THEN age[id] + 1 ELSE age[id]]
    /\ UNCHANGED << rec_text, recVars, sessVars, redis_conn, reachable, queue,
                    processing_count, lock, handlers, wpc, w_id, tasks,
                    enq_left, pool_size, max_concurrent, extract, ucVars, polled >>

RedisServer ==
    \/ RedisDown
    \/ RedisUp

Lifecycle ==
    \/ Connect
    \/ Disconnect
    \/ \E t \in TaskTypes : register_handler(t)

Producer ==
    \/ \E j \in Jobs : Enqueue(j[1], j[2])
    \/ \E id \in TaskIds : EnqueuePush(id)

Reader ==
    \/ \E id \in TaskIds : GetTask(id)
    \/ \E id \in TaskIds : GetResult(id)

\* The rounds of a worker loop nobody cancels and no Redis command fails.
WorkerLoop ==
    \/ \E w \in Workers : StartWorker(w)
    \/ \E w \in Workers : WorkerCheck(w)
    \/ \E w \in Workers : WorkerWake(w)
    \/ \E w \in Workers : WorkerPop(w)
    \/ \E w \in Workers : WorkerLookup(w)

Worker ==
    \/ WorkerLoop
    \/ \E w \in Workers : WorkerBackoff(w)
    \/ \E w \in Workers : CancelWorker(w)

\* The steps of an execution none of whose writes raises.
ExecutionUp ==
    \/ \E id \in TaskIds : ExecBegin(id)
    \/ \E id \in TaskIds : ExecHandlerReturns(id)
    \/ \E id \in TaskIds : ExecHandlerRaises(id)
    \/ \E id \in TaskIds : ExecCleanup(id)

Execution ==
    \/ ExecutionUp
    \/ \E id \in TaskIds : ExecFailWrite(id)

Direct ==
    \/ \E id \in TaskIds : DirectBegin(id)
    \/ \E id \in TaskIds : DirectHandlerReturns(id)
    \/ \E id \in TaskIds : DirectHandlerRaises(id)

\* The worker pool and the direct fallback.
NextPool ==
    RedisServer \/ Lifecycle \/ Producer \/ Worker \/ Execution \/ Direct

\* One worker loop, as main.py starts it.
SpecPool == InitPool /\ [][NextPool]_vars

\* Several worker loops popping from the same queue, with the server up.
NextWorkers ==
    \/ Lifecycle
    \/ Producer
    \/ Worker
    \/ ExecutionUp
    \/ Direct

SpecWorkers == InitWorkers /\ [][NextWorkers]_vars

\* The pool with its callers polling and the keys' lifetimes running out.
NextStore == NextPool \/ Reader \/ Tick

SpecStore == InitStore /\ [][NextStore]_vars

\* The same with callers who also ask for ids that were never handed out.
NextProbe == NextStore \/ \E id \in TaskIds : ProbeResult(id)

SpecProbe == InitStore /\ [][NextProbe]_vars

\* The service after a startup that found Redis (main.py 41-49), with the
\* server staying up and the loop not cancelled: handlers may overlap up to
\* the ceiling, and records expire.
InitBusy ==
    /\ InitRun(MaxClientMsgs, MaxProviderMsgs, MaxTasks, MainWorkers,
               1..MaxBusyConcurrent, TRUE)
    /\ available

NextBusy == Producer \/ WorkerLoop \/ ExecutionUp \/ Tick

SpecBusy == InitBusy /\ [][NextBusy]_vars

\* The event loop runs the worker loop and every scheduled execution up to
\* its handler call, and asyncio.Lock serves its waiters in order, so the
\* decrement gets the lock although the loop takes it again and again. How
\* long a handler runs is left open.
FairSpecBusy ==
    /\ SpecBusy
    /\ WF_vars(WorkerLoop)
    /\ \A id \in TaskIds : WF_vars(ExecBegin(id))
    /\ \A id \in TaskIds : SF_vars(ExecCleanup(id))

\* ---- the text_extract handler: QwenExtractorService.extract
\* What one chat.completions.create call comes back with.
ApiReplies == { "ok", "rate_limit", "api_error", "other_error" }

\* A loop that tries again after any failed call.
Retried_any_error(reply) == reply # "ok"

\* qwen_extractor.py 222: only RateLimitError is caught for another attempt
Retried(reply) == reply = "rate_limit"

\* qwen_extractor.py 223
wait_time(attempt) == (2 ^ attempt) * 5

\* qwen_extractor.py 186-202: the handler is entered; a missing key or an
\* empty text raises before any call.
ExtractStart(id) ==
    /\ tasks[id].pc = "handler"
    /\ tasks[id].type = "text_extract"
    /\ extract[id].pc = "idle"
    /\ \E usable \in BOOLEAN :
          extract' = [extract EXCEPT ![id].pc =
                         IF usable /\ max_retries > 0 THEN "calling"
                                                       ELSE "raised"]
    /\ UNCHANGED << rec_text, recVars, sessVars, redis_conn, reachable, store,
                    queue, processing_count, lock, handlers, wpc, w_id, tasks,
                    enq_left, pool_size, max_concurrent, ucVars, polled, age >>

\* qwen_extractor.py 205-243: one attempt. A reply is parsed and returned, or
\* its parsing raises; a rate limit is waited out unless this was the last
\* attempt; every other error is raised again at once.
ExtractCall(id, reply) ==
    /\ extract[id].pc = "calling"
    /\ LET x == [extract[id] EXCEPT !.replies = Append(@, reply)]
       IN  IF reply = "ok"
           THEN \E parsed \in BOOLEAN :
                   extract' = [extract EXCEPT ![id] =
                       [x EXCEPT !.pc = IF parsed THEN "returned"
                                                  ELSE "raised"]]
           ELSE IF Retried(reply) /\ x.attempt < max_retries - 1
           THEN extract' = [extract EXCEPT ![id] =
                       [x EXCEPT !.pc = "sleeping",
                                 !.waits = Append(@, wait_time(x.attempt))]]
           ELSE extract' = [extract EXCEPT ![id] = [x EXCEPT !.pc = "raised"]]
    /\ UNCHANGED << rec_text, recVars, sessVars, redis_conn, reachable, store,
                    queue, processing_count, lock, handlers, wpc, w_id, tasks,
                    enq_left, pool_size, max_concurrent, ucVars, polled, age >>

\* qwen_extractor.py 226: the sleep is over, the next attempt begins
ExtractWake(id) ==
    /\ extract[id].pc = "sleeping"
    /\ extract' = [extract EXCEPT ![id].pc = "calling", ![id].attempt = @ + 1]
    /\ UNCHANGED << rec_text, recVars, sessVars, redis_conn, reachable, store,
                    queue, processing_count, lock, handlers, wpc, w_id, tasks,
                    enq_left, pool_size, max_concurrent, ucVars, polled, age >>

\* str(e) of the TypeError json.dumps raises for a value it cannot encode.
EncodeError == << "not JSON serializable" >>

\* queue_service.py 290-305 with the VoiceEntryResult extract returns
\* (qwen_extractor.py 259-263): json.dumps of the task raises in _update_task
\* for the pydantic object, in the try block and again in the except branch,
\* so nothing is written and the record stays as it was.
ExtractReturned(id) ==
    /\ extract[id].pc = "returned"
    /\ tasks[id].pc = "handler"
    /\ tasks' = [tasks EXCEPT ![id].pc = "cleanup",
                              ![id].result = HandlerResult(tasks[id].payload),
                              ![id].status = "failed",
                              ![id].error = EncodeError]
    /\ UNCHANGED << rec_text, recVars, sessVars, redis_conn, reachable, store,
                    queue, processing_count, lock, handlers, wpc, w_id,
                    enq_left, pool_size, max_concurrent, extract, ucVars, polled, age >>

\* queue_service.py 301-305: the exception of extract is caught
ExtractRaised(id) ==
    /\ extract[id].pc = "raised"
    /\ ExecHandlerRaises(id)

Extraction ==
    \/ \E id \in TaskIds : ExtractStart(id)
    \/ \E id \in TaskIds, reply \in ApiReplies : ExtractCall(id, reply)
    \/ \E id \in TaskIds : ExtractWake(id)
    \/ \E id \in TaskIds : ExtractReturned(id)
    \/ \E id \in TaskIds : ExtractRaised(id)

\* The connected service running the handler main.py registers.
InitExtract ==
    /\ InitRun(MaxClientMsgs, MaxProviderMsgs, MaxTasks, MainWorkers,
               { MaxConcurrent }, TRUE)
    /\ available

NextExtract ==
    \/ \E p \in { "p" } : Enqueue("text_extract", p)
    \/ \E id \in TaskIds : EnqueuePush(id)
    \/ WorkerLoop
    \/ \E id \in TaskIds : ExecBegin(id)
    \/ \E id \in TaskIds : ExecCleanup(id)
    \/ Extraction

SpecExtract == InitExtract /\ [][NextExtract]_vars

\* ---- register (UserCenter auth.py 168-242)
\* Each request has its own session and transaction (get_db); PostgreSQL's
\* default isolation level applies, so a SELECT sees what is committed.
\* auth.py 178-195: the invitation is read and checked
RegisterRead(r, c) ==
    /\ reg[r].pc = "idle"
    /\ reg' = [reg EXCEPT ![r] =
                 IF c = NoCode
                 THEN [pc |-> "rejected", code |-> c, seen |-> 0]
                 ELSE IF invitation[c].used_count >= invitation[c].max_uses
                 THEN [pc |-> "rejected", code |-> c,
                       seen |-> invitation[c].used_count]
                 ELSE [pc |-> "checked", code |-> c,
                       seen |-> invitation[c].used_count]]
    /\ UNCHANGED << rec_text, recVars, sessVars, queueVars, invitation,
                    accounts >>

\* auth.py 198-224: the phone is free; employee and account are flushed
RegisterCreate(r) ==
    /\ reg[r].pc = "checked"
    /\ reg' = [reg EXCEPT ![r].pc = "created"]
    /\ UNCHANGED << rec_text, recVars, sessVars, queueVars, invitation,
                    accounts >>

\* auth.py 227-236: used_count is set to the value read plus one and the
\* transaction committed
RegisterCommit(r) ==
    /\ reg[r].pc = "created"
    /\ invitation' = [invitation EXCEPT ![reg[r].code].used_count =
                                            reg[r].seen + 1]
    /\ accounts' = accounts \cup { [reg |-> r, code |-> reg[r].code,
                                     status |-> "pending"] }
    /\ reg' = [reg EXCEPT ![r].pc = "accepted"]
    /\ UNCHANGED << rec_text, recVars, sessVars, queueVars >>

NextRegister ==
    \/ \E r \in Regs, c \in Codes \cup { NoCode } : RegisterRead(r, c)
    \/ \E r \in Regs : RegisterCreate(r)
    \/ \E r \in Regs : RegisterCommit(r)

InitRegister == Init /\ available

SpecRegister == InitRegister /\ [][NextRegister]_vars

\* ---- lifespan shutdown (main.py 59-67)
\* main.py 60-65: worker_task.cancel() and the wait for the loop to leave;
\* no loop is started afterwards.
ShutdownCancel ==
    /\ pool_size > 0
    /\ \E w \in Workers : wpc[w] # "off"
    /\ pool_size' = 0
    /\ wpc' = [w \in Workers |-> "off"]
    /\ w_id' = [w \in Workers |-> 0]
    /\ lock' = IF \E w \in Workers : wpc[w] = "sleep" THEN "free" ELSE lock
    /\ tasks' = [id \in TaskIds |->
                    IF \E w \in Workers :
                          wpc[w] \in { "lookup", "inc" } /\ w_id[w] = id
                    THEN [tasks[id] EXCEPT !.pc = Abandoned(id)]
                    ELSE tasks[id]]
    /\ UNCHANGED << rec_text, recVars, sessVars, redis_conn, reachable, store,
                    queue, processing_count, handlers, enq_left,
                    max_concurrent, extract, ucVars, polled, age >>

\* main.py 66: queue_service.disconnect(), right after the loop has left.
ShutdownDisconnect ==
    /\ pool_size = 0
    /\ Disconnect

\* The service from a startup that found Redis to its shutdown; executions
\* go on as long as the event loop runs them.
NextShutdown ==
    \/ Producer
    \/ WorkerLoop
    \/ ExecutionUp
    \/ ShutdownCancel
    \/ ShutdownDisconnect

SpecShutdown == InitBusy /\ [][NextShutdown]_vars

\* The event loop runs every task that asyncio.create_task has scheduled.
FairSpecPool ==
    /\ InitPool
    /\ [][NextPool]_vars
    /\ \A id \in TaskIds : WF_vars(DirectBegin(id))

\* ========================================================= session claims
\* Messages sent to the client since the session started.
SessionOut == SubSeq(client_out, sess_base + 1, Len(client_out))

CountOut(type) ==
    Cardinality({ i \in DOMAIN SessionOut : SessionOut[i].type = type })

InSession == hpc \in { "call", "gather", "stop", "final" }

SessionOver == hpc = "wait" /\ client_out # <<>>

\* C4: a session that read cancel before the provider reported its terminal
\* status sends no text_final to the client.
C4_NoFinalAfterCancel ==
    cancelled_early => CountOut("text_final") = 0

\* C5: no audio frame goes to the provider after the receive pump has read
\* the provider's status 2 result.
C5_NoAudioAfterTerminal ==
    \A i \in DOMAIN xf_in : xf_in[i].kind = "audio" => ~xf_in[i].late

\* A result that changes the transcript: it carries text or it replaces.
CarriesUpdate(m) == m.code = 0 /\ m.data /\ (m.text # <<>> \/ m.pgs = "rpl")

ProviderAnswered ==
    /\ terminal_seen
    /\ \E i \in DOMAIN xf_hist : CarriesUpdate(xf_hist[i])

C10_TerminalMessage ==
    InSession ~> (CountOut("text_final") + CountOut("error") > 0)

\* The provider never answered and the session still ended with text_final.
C10_Witness ==
    /\ SessionOver
    /\ xf_conn = "closed"
    /\ xf_hist = <<>>
    /\ ~terminal_seen
    /\ CountOut("text_final") = 1

\* ================================================== segment reconciler claims
\* The fragment held at key k, "" when the key is absent.
Held(d, k) == IF DictHas(d, k) THEN DictGet(d, k) ELSE <<>>

\* Concatenation of the held fragments for k, k+1, ..., MaxSeq, key by key.
RECURSIVE AscendingFrom(_, _)
AscendingFrom(d, k) ==
    IF k > MaxSeq THEN <<>> ELSE Held(d, k) \o AscendingFrom(d, k + 1)

\* C1: the current text is the concatenation of the held fragments in
\* ascending sequence number, whatever the arrival order, and applying two
\* appends with distinct sequence numbers in either order gives the same text
\* (each pair of distinct numbers is taken once, lower number first).
C1_AscendingText ==
    /\ get_current_text(rec_text) = AscendingFrom(rec_text, 0)
    /\ \A u, v \in AppendUpdates :
          u.sn < v.sn =>
            get_current_text(ApplyUpdate(ApplyUpdate(rec_text, u), v))
              = get_current_text(ApplyUpdate(ApplyUpdate(rec_text, v), u))

\* (2, "b") arrived before (0, "a") and the text reads "a" then "b".
C1_Witness ==
    /\ rec_text = << <<2, <<"b">>>>, <<0, <<"a">>>> >>
    /\ rec_last = DataMsg(1, "apd", <<>>, 0, <<"a">>)
    /\ get_current_text(rec_text) = <<"a", "b">>

\* A key the replacement range [low, high] does not reach.
Untouched(k, low, high) == k < low \/ (k > high /\ k # low)

\* The text a replacement must leave: the new fragment at low and the
\* fragments of prev outside the range, in ascending key order.
RECURSIVE ReplacedFrom(_, _, _, _, _)
ReplacedFrom(prev, low, high, text, k) ==
    IF k > MaxSeq THEN <<>>
    ELSE (IF k = low THEN text
          ELSE IF Untouched(k, low, high) THEN Held(prev, k) ELSE <<>>)
         \o ReplacedFrom(prev, low, high, text, k + 1)

\* C2: a replacement with range [low, high] removes the keys k with
\* low < k <= high, installs the new text at low, leaves the keys below low
\* and above high as they were, and the text is the new fragment plus the
\* untouched fragments in ascending key order.
C2_ReplaceRange ==
    (rec_n > 0 /\ IsReplacement(rec_last)) =>
        LET low == rec_last.rg[1]
            high == rec_last.rg[2]
        IN /\ DictKeys(rec_text) =
                (DictKeys(rec_prev) \ { k \in Seqs : low < k /\ k <= high })
                  \cup {low}
           /\ DictGet(rec_text, low) = rec_last.text
           /\ \A k \in DictKeys(rec_prev) :
                 Untouched(k, low, high) =>
                   DictGet(rec_text, k) = DictGet(rec_prev, k)
           /\ get_current_text(rec_text) =
                ReplacedFrom(rec_prev, low, high, rec_last.text, 0)

\* Keys 1 and 2 were held; the range [0, 1] removed 1, wrote 0 and kept 2.
C2_Witness ==
    /\ rec_n > 0
    /\ IsReplacement(rec_last)
    /\ rec_last.rg = <<0, 1>>
    /\ rec_last.text # <<>>
    /\ DictKeys(rec_prev) = {1, 2}
    /\ DictKeys(rec_text) = {0, 2}

\* C3: applying the same non-replacement update (same sn, same text) once
\* more leaves rec_text and the current text unchanged.
C3_AppendIdempotent ==
    [][ (rec_n > 0 /\ rec_last \in AppendUpdates /\ rec_last' = rec_last)
          => /\ rec_text' = rec_text
             /\ get_current_text(rec_text') = get_current_text(rec_text) ]_vars

\* The last step applied, for the second time, an append that carries text.
C3_Witness ==
    /\ rec_n >= 2
    /\ rec_last \in AppendUpdates
    /\ rec_last.text # <<>>
    /\ rec_prev = rec_text
    /\ Held(rec_text, rec_last.sn) = rec_last.text

\* =========================================================== queue claims
\* Tasks whose handler the worker pool has invoked and is awaiting.
Executing ==
    { id \in TaskIds : tasks[id].mode = "durable" /\ tasks[id].pc = "handler" }

\* C7: at every instant at most max_concurrent tasks dispatched by the worker
\* loop are executing, and the in-flight count (the counter itself and the
\* processing entry of get_queue_stats) lies between 0 and max_concurrent.
C7_ConcurrencyCeiling ==
    /\ Cardinality(Executing) <= max_concurrent
    /\ processing_count \in 0..max_concurrent
    /\ get_queue_stats.processing \in 0..max_concurrent

\* The ceiling is reached while another task waits on the queue.
C7_Witness ==
    /\ Cardinality(Executing) = max_concurrent
    /\ get_queue_stats.processing = max_concurrent
    /\ queue # <<>>
    /\ wpc[1] = "sleep"

\* C8: an enqueue made while disconnected returns its id, never puts the id
\* on the queue, and invokes the handler at most once and only with the
\* task's payload; when a handler was registered for the type, it is invoked
\* exactly once, whether or not a worker loop runs.
C8_DirectOnce ==
    /\ [](\A id \in TaskIds :
            tasks[id].mode = "direct" =>
                /\ tasks[id].returned
                /\ ~tasks[id].pushed
                /\ \A i \in DOMAIN queue : queue[i] # id
                /\ Len(tasks[id].invoked) <= 1
                /\ \A i \in DOMAIN tasks[id].invoked :
                       tasks[id].invoked[i] = tasks[id].payload)
    /\ \A id \in TaskIds :
           (tasks[id].mode = "direct" /\ tasks[id].registered)
               ~> (tasks[id].invoked = << tasks[id].payload >>)

\* A direct task's handler has been invoked with no worker loop running.
C8_Witness ==
    \E id \in TaskIds :
        /\ tasks[id].mode = "direct"
        /\ tasks[id].registered
        /\ tasks[id].returned
        /\ tasks[id].invoked = << tasks[id].payload >>
        /\ \A w \in Workers : wpc[w] = "off"
        /\ queue = <<>>

\* C9: a record last written task_ttl ticks ago or earlier is gone, whatever
\* was read in between: get_task and get_result return nothing for it, and a
\* read made that late has returned nothing.
C9_ExpiredUnretrievable ==
    /\ \A id \in TaskIds :
           age[id] >= task_ttl =>
               /\ ~store[id].present
               /\ get_task(id) = <<>>
               /\ get_result(id) = <<>>
    /\ polled.late => polled.task = <<>> /\ polled.result = <<>>

\* A caller who had read the completed result reads again after the
\* lifetime has run out, still connected.
C9_Witness ==
    /\ redis_conn
    /\ polled.op = "get_result"
    /\ polled.late
    /\ polled.id \in TaskIds
    /\ tasks[polled.id].seen
    /\ tasks[polled.id].status = "completed"

\* C11: no enqueue call raises, whatever the state of the durable store: a
\* call made while the server cannot be reached falls back to direct
\* execution and returns its id.
C11_EnqueueNeverRaises ==
    \A id \in TaskIds : tasks[id].pc # "raised"

\* C12: get_result returns the handler's result of a task that completed in
\* direct-fallback mode, as it does for one that completed in durable mode.
C12_DirectResultReadable ==
    \A id \in TaskIds :
        (tasks[id].mode = "direct" /\ tasks[id].status = "completed")
            => get_result(id) = << HandlerResult(tasks[id].payload) >>

\* Where a task id is at this moment: positions on the queue, worker loops
\* holding it after their pop, and its execution in flight.
Holders(id) ==
    Cardinality({ i \in DOMAIN queue : queue[i] = id })
      + Cardinality({ w \in Workers : w_id[w] = id })
      + (IF tasks[id].pc \in { "start", "handler", "failing", "cleanup" } THEN 1 ELSE 0)

\* C13: with several worker loops on one queue every task id is scheduled at
\* most once, its handler is invoked at most once, and the id is never in two
\* places (queue, a loop's hands, an execution) at the same time.
C13_ConsumedOnce ==
    \A id \in TaskIds :
        /\ tasks[id].scheduled <= 1
        /\ Len(tasks[id].invoked) <= 1
        /\ Holders(id) <= 1

\* Two worker loops hold two different ids they have just popped.
C13_Witness ==
    \E v, w \in Workers :
        /\ v # w
        /\ w_id[v] # 0
        /\ w_id[w] # 0
        /\ w_id[v] # w_id[w]
        /\ wpc[v] = "lookup"
        /\ wpc[w] = "lookup"

\* C14: every id taken from the queue while its record exists gets its
\* execution scheduled: no worker loop gives such an id up.
C14_NoPoppedTaskLost ==
    \A id \in TaskIds : tasks[id].pc # "lost"


\* ============================================== session claims, second part
Chars(t) == { t[j] : j \in DOMAIN t }

\* The fragments the provider has sent on the present provider connection.
SessionFragments == UNION { Chars(xf_hist[i].text) : i \in DOMAIN xf_hist }

PumpsRunning == rpc # "none" \/ spc # "none"

\* C15: one session at a time per connection. The pumps run only inside the
\* one call the handler is waiting in; a start is acted on only while the
\* handler is idle, with no pump running, the provider connection not open
\* and the previous session (if any) ended by text_final or error; a call
\* that connects begins with an empty segment map, an empty text and the done
\* flag unset; and every partial or final text of the session is made of
\* fragments the provider sent in this session.
C15_OneSessionAtATime ==
    /\ [](PumpsRunning => hpc = "gather")
    /\ [][(hpc # "call" /\ hpc' = "call") =>
             /\ hpc = "wait"
             /\ ~PumpsRunning
             /\ xf_conn # "open"
             /\ (client_out = <<>>
                   \/ CountOut("text_final") + CountOut("error") > 0)]_vars
    /\ [][(hpc = "call" /\ hpc' = "gather") =>
             /\ rec_text' = <<>>
             /\ full_text' = <<>>
             /\ ~recognition_done']_vars
    /\ [](\A i \in DOMAIN SessionOut :
             SessionOut[i].type \in { "partial", "text_final" } =>
                 Chars(SessionOut[i].text) \subseteq SessionFragments)

\* The first session ended with the text "a"; the second one, on the same
\* connection, heard only "b" and ended with the text "b".
C15_Witness ==
    /\ sess_base > 0
    /\ SessionOver
    /\ \E i \in 1..sess_base : client_out[i] = ToClient("text_final", <<"a">>)
    /\ \E i \in DOMAIN SessionOut :
          SessionOut[i] = ToClient("text_final", <<"b">>)
    /\ SessionFragments = { "b" }


FinalFrameSent == \E i \in DOMAIN xf_in : xf_in[i].kind = "last"

\* The receive pump waited the whole receive timeout for the provider after
\* the send pump had sent the final frame.
TimedOutAfterFinalFrame == r_exit = "timeout" /\ FinalFrameSent

\* C17: a receive timeout after the final frame is a failure of the session:
\* no text_final is sent for it, and when the session is over exactly one
\* error has been sent to the client.
C17_TimeoutIsFailure ==
    TimedOutAfterFinalFrame =>
        /\ CountOut("text_final") = 0
        /\ (SessionOver => CountOut("error") = 1)


\* The receive pump left its loop on an error reply of the provider or on a
\* failure of the provider connection.
ProviderFailed == r_exit \in { "error", "closed" }

\* C18: after an error reply or a failure of the provider connection the
\* session comes to its end whatever the client does next, and when it is
\* over exactly one error message has been sent to the client; the handler
\* is then waiting for the next start.
C18_ProviderFailureEndsSession ==
    /\ (InSession /\ ProviderFailed) ~> (hpc = "wait")
    /\ []((ProviderFailed /\ SessionOver) => CountOut("error") = 1)


SendPumpGone == spc \in { "done", "none" }

\* C19: once the done event is set the send pump leaves its loop, also when
\* the client sends nothing more: from the top of its loop it goes nowhere
\* but out, so it reads the client at most once more, a read that ends by
\* itself, and no audio frame was sent by a pump that had seen the event.
C19_SendPumpSeesDone ==
    /\ (hpc = "gather" /\ recognition_done) ~> SendPumpGone
    /\ [][(recognition_done /\ spc = "poll") => spc' \in { "poll", "done" }]_vars
    /\ [](\A i \in DOMAIN xf_in : xf_in[i].kind = "audio" => ~xf_in[i].done)

\* The client sent start and nothing else; the event was set and the send
\* pump has left its loop while the call is still open.
C19_Witness ==
    /\ hpc = "gather"
    /\ recognition_done
    /\ spc = "done"
    /\ client_hist = << "start" >>


LastFrames == { i \in DOMAIN xf_in : xf_in[i].kind = "last" }

\* C20: on one provider connection the final frame is sent at most once,
\* nothing is sent after it, it is there only when the last message the send
\* pump handled was the client's end, and handling a cancel sends nothing and
\* leaves the loop.
C20_FinalFrameOnce ==
    /\ [](Cardinality(LastFrames) <= 1)
    /\ [](\A i \in LastFrames : i = Len(xf_in))
    /\ [](FinalFrameSent => s_msg = "end")
    /\ [][(spc = "handle" /\ s_msg = "cancel" /\ spc' # spc) =>
             (spc' = "done" /\ xf_in' = xf_in)]_vars

\* The client sent audio after its end: the final frame went out once, right
\* after the first frame, and the late audio was read by the handler and sent
\* nowhere.
C20_Witness ==
    /\ client_hist = << "start", "end", "audio" >>
    /\ client_in = <<>>
    /\ [i \in DOMAIN xf_in |-> xf_in[i].kind] = << "first", "last" >>
    /\ s_msg = "end"
    /\ hpc = "wait"


\* The send pump has just read the client's cancel.
CancelRead == spc = "handle" /\ s_msg = "cancel"

\* C16: when the client cancels or drops the connection during a call, both
\* pumps come to their end and the call returns to the handler the normal
\* way, with the provider connection closed.
C16_CancelEndsPumps ==
    (hpc = "gather" /\ (CancelRead \/ ClientGone)) ~>
        (hpc = "stop" /\ xf_conn = "closed" /\ ~PumpsRunning)

\* The client dropped the connection during the call and the call returned
\* after the send pump had met the disconnect.
C16_Witness ==
    /\ hpc = "stop"
    /\ xf_conn = "closed"
    /\ ~PumpsRunning
    /\ s_msg = "disconnect"
    /\ client_hist = << "start", "disconnect" >>


\* ================================================ session claims, third part
OutTypes == [i \in DOMAIN SessionOut |-> SessionOut[i].type]

\* The step sends the client a message of one of the given types.
Sends(types) ==
    /\ Len(client_out') = Len(client_out) + 1
    /\ client_out'[Len(client_out')].type \in types

\* C21: in a session that ended on the provider's terminal status the client
\* was sent status, then partials only, then stop_recording, then text_final;
\* stop_recording and text_final are sent with both pumps over and the
\* provider connection closed; no partial follows stop_recording.
C21_OrderedMessages ==
    /\ []((SessionOver /\ r_exit = "final") =>
            /\ Len(OutTypes) >= 3
            /\ OutTypes[1] = "status"
            /\ OutTypes[Len(OutTypes) - 1] = "stop_recording"
            /\ OutTypes[Len(OutTypes)] = "text_final"
            /\ \A i \in 2..(Len(OutTypes) - 2) : OutTypes[i] = "partial")
    /\ [](\A i, j \in DOMAIN OutTypes :
            (i < j /\ OutTypes[i] = "stop_recording") => OutTypes[j] # "partial")
    /\ [][Sends({ "stop_recording", "text_final" }) =>
            (~PumpsRunning /\ xf_conn = "closed")]_vars

\* Two results, the second with the terminal status: two partials, then
\* stop_recording and text_final.
C21_Witness ==
    /\ SessionOver
    /\ r_exit = "final"
    /\ OutTypes = << "status", "partial", "partial", "stop_recording", "text_final" >>


\* The segment map after the first n messages of h, applied in arrival order.
RECURSIVE Replay(_, _)
Replay(h, n) == IF n = 0 THEN <<>> ELSE ApplyUpdate(Replay(h, n - 1), h[n])

\* Provider messages the receive pump has read on the present connection.
Received == Len(xf_hist) - Len(xf_out)

\* C22: while the receive pump runs, the segment map is what the updates
\* read so far make of an empty map; every partial carries the fragments of
\* that map joined in ascending sequence number; and text_final carries the
\* fragments of the map the receive pump left, joined the same way.
C22_WholeTranscript ==
    /\ [](rpc \in { "recv", "partial_sent" } =>
             rec_text = Replay(xf_hist, Received))
    /\ [][Sends({ "partial" }) =>
             client_out'[Len(client_out')].text =
                 AscendingFrom(Replay(xf_hist', Len(xf_hist') - Len(xf_out')), 0)]_vars
    /\ [][Sends({ "text_final" }) =>
             client_out'[Len(client_out')].text = AscendingFrom(rec_text, 0)]_vars

\* "b" at number 1 arrived before "a" at number 0: the second partial and
\* text_final read "a" then "b".
C22_Witness ==
    /\ SessionOver
    /\ Len(xf_hist) = 2
    /\ xf_hist[1].sn = 1 /\ xf_hist[1].text = << "b" >>
    /\ xf_hist[2].sn = 0 /\ xf_hist[2].text = << "a" >>
    /\ \E i \in DOMAIN SessionOut : SessionOut[i] = ToClient("partial", << "b" >>)
    /\ \E i \in DOMAIN SessionOut : SessionOut[i] = ToClient("partial", << "a", "b" >>)
    /\ SessionOut[Len(SessionOut)] = ToClient("text_final", << "a", "b" >>)


\* ====================================== segment reconciler claims, second part
\* C23: an append (pgs "apd") with empty text is recorded: after it the map
\* holds the empty string at the update's sequence number.
C23_EmptyAppendRecorded ==
    (rec_n > 0 /\ rec_last.pgs = "apd" /\ rec_last.text = <<>>) =>
        /\ DictHas(rec_text, rec_last.sn)
        /\ DictGet(rec_text, rec_last.sn) = <<>>


\* C24: a replacement with range [k, k] leaves the map and the text that an
\* append at k with the same text would have left, whatever the map it was
\* applied to and whatever the text, the empty one included.
C24_PointReplaceIsAppend ==
    (rec_n > 0 /\ IsReplacement(rec_last) /\ rec_last.rg[1] = rec_last.rg[2]) =>
        LET appended ==
                ApplyUpdate(rec_prev,
                            DataMsg(1, "apd", <<>>, rec_last.rg[1], rec_last.text))
        IN /\ rec_text = appended
           /\ get_current_text(rec_text) = get_current_text(appended)


\* C25: a result without a sequence number is rejected and leaves the map as
\* it was, and an update that has one is applied at it: an append with text
\* is held at its number afterwards, also when that leaves a gap or lies
\* below numbers already held.
C25_MissingSequenceRejected ==
    /\ (rec_n > 0 /\ rec_raw.sn = NoSn) =>
           rec_text = rec_prev
    /\ (rec_n > 0 /\ rec_raw \in AppendUpdates /\ rec_raw.text # <<>>) =>
           /\ DictHas(rec_text, rec_raw.sn)
           /\ DictGet(rec_text, rec_raw.sn) = rec_raw.text


\* ================================================= queue claims, second part
OnQueue(id) == \E i \in DOMAIN queue : queue[i] = id

\* C26: every id on the queue has its record in the store (no time passes in
\* these runs, so no record has expired), written as pending before the
\* push; and once the enqueue call that wrote a record is over, the id of
\* that record has been pushed.
C26_RecordThenQueue ==
    \A id \in TaskIds :
        /\ OnQueue(id) => (store[id].present /\ tasks[id].pushed)
        /\ (store[id].present /\ tasks[id].pc # "stored") => tasks[id].pushed


\* The task's execution stands at one of its writes.
Writing(id) == tasks[id].pc \in { "start", "handler", "failing" }

\* The step changes the status of the stored record of id.
StatusStep(id) ==
    /\ store[id].present
    /\ store'[id].present
    /\ store'[id].status # store[id].status

\* pending, then processing, then one of the two final statuses.
Rank(status) ==
    IF status = "pending" THEN 0 ELSE IF status = "processing" THEN 1 ELSE 2

C28_FinalStatusMatchesOutcome ==
    \A id \in TaskIds :
        tasks[id].pc = "done" =>
            /\ tasks[id].status \in { "completed", "failed" }
            /\ tasks[id].result # <<>> => tasks[id].status = "completed"
            /\ tasks[id].invoked = <<>> =>
                   (tasks[id].status = "failed" /\ tasks[id].error # <<>>)
            /\ store[id].present => store[id].status = tasks[id].status


\* Executions the worker loop has started and that have not ended.
InFlight ==
    { id \in TaskIds : tasks[id].mode = "durable"
                         /\ tasks[id].pc \in { "start", "handler", "failing",
                                               "cleanup" } }

\* C29: the in-flight counter is the number of executions started by the
\* worker loop and not yet over, whatever their outcome; with none running
\* it is 0.
C29_CounterIsInFlight == processing_count = Cardinality(InFlight)

\* Both writes of an execution raised, the execution is over and the counter
\* is back at 0.
C29_Witness ==
    /\ processing_count = 0
    /\ \E id \in TaskIds :
          /\ tasks[id].pc = "done"
          /\ tasks[id].scheduled = 1
          /\ tasks[id].error = StoreError
          /\ store[id].present
          /\ store[id].status = "pending"


\* Positions of a worker loop between its ceiling check and its increment.
PastCheck == { "brpop", "lookup", "inc" }

\* C30: with several worker loops on one queue service, the counter is not
\* incremented by another loop while a loop stands between its own ceiling
\* check and its own increment, and so the counter never exceeds the ceiling.
C30_CheckAndIncrementAtomic ==
    /\ [](processing_count <= max_concurrent)
    /\ [][\A w \in Workers :
             (wpc[w] \in PastCheck /\ wpc'[w] \in PastCheck) =>
                 processing_count' <= processing_count]_vars


\* ================================================ queue claims, third part
\* The worker loop has scheduled an execution of the task.
Started(id) == tasks[id].scheduled > 0

\* The loop popped the id and found its record expired.
Dropped(id) == tasks[id].pc = "dropped"

\* Every handler call comes to an end.
HandlersFinish == \A id \in TaskIds : []<>(tasks[id].pc # "handler")

\* C31: the worker loop does not wait for an execution it has started. A
\* queued id seen while fewer than max_concurrent tasks are in flight is
\* popped and its execution started (or its record is found expired, or the
\* ceiling is reached first) however long the handlers already running take;
\* and when every handler call ends, every queued id is started or found
\* expired.
C31_LoopNeverWaits ==
    /\ \A id \in TaskIds :
          (OnQueue(id) /\ processing_count < max_concurrent)
              ~> (Started(id) \/ Dropped(id)
                    \/ processing_count >= max_concurrent)
    /\ HandlersFinish
          => \A id \in TaskIds : OnQueue(id) ~> (Started(id) \/ Dropped(id))

\* A second execution was started while a handler was still running.
C31_Witness ==
    \E a, b \in TaskIds :
        /\ a # b
        /\ tasks[a].pc = "handler"
        /\ Started(b)
        /\ tasks[b].pc \in { "start", "handler" }
        /\ processing_count = 2
        /\ wpc[1] = "check"

\* A get_result call for the id returns in this step.
ResultRead(id) == GetResult(id) \/ ProbeResult(id)

\* The stored record of the id holds a completed task.
StoredCompleted(id) == store[id].present /\ store[id].status = "completed"

\* C32: a get_result call that returns (the Redis GET answers, or there is
\* no client) yields the stored result exactly when the record exists with
\* status completed, and that result is the one the worker's execution got
\* from the handler; for a pending, processing, failed, expired or never
\* issued id it yields nothing; and no call changes the record or its
\* lifetime.
C32_ResultOnlyWhenCompleted ==
    [][\A id \in TaskIds :
          ResultRead(id) =>
              /\ store' = store
              /\ ~polled'.raised =>
                    polled'.result =
                        IF redis_conn /\ StoredCompleted(id)
                        THEN << store[id].result >> ELSE <<>>
              /\ polled'.result # <<>> =>
                    /\ StoredCompleted(id)
                    /\ polled'.result = << tasks[id].result >>
                    /\ tasks[id].result = HandlerResult(tasks[id].payload)]_vars

\* A caller has got the result of a completed task from a stored record.
C32_Witness ==
    /\ polled.op = "get_result"
    /\ polled.id \in TaskIds
    /\ ~polled.raised
    /\ polled.result = << HandlerResult(tasks[polled.id].payload) >>
    /\ StoredCompleted(polled.id)

\* C33: every write of a record, by enqueue or by _update_task, gives the key
\* the full lifetime again. A stored record has task_ttl minus the ticks since
\* its last write left, and a record written less than task_ttl ticks ago is
\* stored and is what get_task returns to a connected caller; so a task that
\* completes after its record has run out is stored again with the full
\* lifetime.
C33_WriteRestartsTtl ==
    \A id \in TaskIds :
        /\ store[id].present => store[id].ttl = task_ttl - age[id]
        /\ (tasks[id].mode = "durable" /\ age[id] < task_ttl) =>
              /\ store[id].present
              /\ (redis_conn /\ reachable) =>
                    get_task(id) = << [status |-> store[id].status,
                                       result |-> store[id].result] >>

\* A caller found the record gone while the handler was running; the handler
\* has returned since and the completed record has its full lifetime.
C33_Witness ==
    /\ polled.op = "get_task"
    /\ polled.late
    /\ polled.task = <<>>
    /\ polled.id \in TaskIds
    /\ tasks[polled.id].pc = "cleanup"
    /\ StoredCompleted(polled.id)
    /\ store[polled.id].ttl = task_ttl

\* C34: once shutdown has cancelled the worker loop, no loop runs any more,
\* and every execution the loop had started runs to its end: the status it
\* ends with is completed or failed and is the status of its stored record,
\* and when all of them have ended the in-flight counter is back at 0.
C34_InFlightDrains ==
    pool_size = 0 =>
        /\ \A w \in Workers : wpc[w] = "off"
        /\ \A id \in TaskIds :
              (Started(id) /\ tasks[id].pc = "done") =>
                  /\ tasks[id].status \in { "completed", "failed" }
                  /\ store[id].status = tasks[id].status
        /\ (\A id \in TaskIds : Started(id) => tasks[id].pc = "done")
              => processing_count = 0

\* ============================================ session claims, fourth part
\* The client messages the server has read so far.
ClientRead == SubSeq(client_hist, 1, Len(client_hist) - Len(client_in))

StartsRead == Cardinality({ i \in DOMAIN ClientRead : ClientRead[i] = "start" })

\* C35: a service constructed without credentials runs, and fails each
\* session when it is asked for: no provider connection is opened, no frame
\* sent and no pump started; every start the server reads is answered by the
\* status message and then an error message, never by text_final; and the
\* handler reads on after the error, ending only when it reads cancel.
C35_UnavailableFailsOnUse ==
    ~available =>
        /\ xf_conn = "none" /\ xf_in = <<>> /\ xf_hist = <<>>
        /\ rpc = "none" /\ spc = "none"
        /\ hpc \in { "wait", "call", "closed" }
        /\ \A i \in DOMAIN client_out :
              client_out[i].type = IF i % 2 = 1 THEN "status" ELSE "error"
        /\ Len(client_out) =
              IF hpc = "call" THEN 2 * StartsRead - 1 ELSE 2 * StartsRead
        /\ hpc = "closed" => ClientRead[Len(ClientRead)] = "cancel"

\* Two starts on a service without credentials, each answered by an error.
C35_Witness ==
    /\ ~available
    /\ hpc = "wait"
    /\ StartsRead = 2
    /\ OutTypes = << "status", "error" >>
    /\ Len(client_out) = 4

\* ================================================= extraction handler claim
\* The execution of the task has written its last status.
Settled(id) == tasks[id].pc \in { "cleanup", "done" }

\* C36: one extraction makes at most max_retries API calls; every call but
\* the last was answered by a rate limit, so nothing else is retried; the
\* waits between the calls are 5, 10, ... seconds (5 * 2^attempt); a rate
\* limit on the last attempt and any other error end the extraction with an
\* exception; and the task of an extraction that raised is stored as failed
\* with an error.
C36_BoundedRetry ==
    \A id \in TaskIds :
        LET x == extract[id]
            n == Len(extract[id].replies)
        IN  /\ n <= max_retries
            /\ \A i \in 1..(n - 1) : x.replies[i] = "rate_limit"
            /\ Len(x.waits) = IF x.pc \in { "idle", "calling", "sleeping" }
                              THEN n
                              ELSE IF n = 0 THEN 0 ELSE n - 1
            /\ \A i \in DOMAIN x.waits : x.waits[i] = 5 * (2 ^ (i - 1))
            /\ (n = max_retries /\ x.replies[n] = "rate_limit")
                  => x.pc = "raised"
            /\ (n > 0 /\ x.replies[n] \in { "api_error", "other_error" })
                  => x.pc = "raised"
            /\ (x.pc = "raised" /\ Settled(id)) =>
                  /\ tasks[id].status = "failed"
                  /\ tasks[id].error # <<>>
                  /\ store[id].present
                  /\ store[id].status = "failed"
                  /\ store[id].error = tasks[id].error

\* Every attempt was rate-limited; the task is stored as failed.
C36_Witness ==
    \E id \in TaskIds :
        /\ extract[id].replies = [i \in 1..max_retries |-> "rate_limit"]
        /\ extract[id].waits = << 5, 10 >>
        /\ tasks[id].pc = "done"
        /\ store[id].status = "failed"

\* ================================================ queue claims, fourth part
\* The last get_task call found the record of an enqueued id run out.
ReadAbsent ==
    /\ polled.op = "get_task"
    /\ polled.id \in TaskIds
    /\ polled.late
    /\ ~polled.raised
    /\ polled.task = <<>>

\* C37: once get_task has returned nothing for an enqueued id because its
\* record has run out, no record of that id is stored again, whatever the
\* worker's execution of the task writes afterwards.
C37_AbsenceStable ==
    ReadAbsent => ~store[polled.id].present

\* ========================================================= user centre claim
\* The accounts registered with the code.
AccountsOf(c) == { a \in accounts : a.code = c }

\* C38: for every invitation code used_count stays within max_uses, also
\* when registrations with the same code overlap; no more registrations are
\* accepted than the code allows; each accepted registration has raised
\* used_count by one, so used_count is the number of accounts created with
\* the code; and each of these accounts is pending.
C38_UsesWithinLimit ==
    \A c \in Codes :
        /\ invitation[c].used_count \in 0..invitation[c].max_uses
        /\ Cardinality(AccountsOf(c)) <= invitation[c].max_uses
        /\ invitation[c].used_count = Cardinality(AccountsOf(c))
        /\ \A a \in AccountsOf(c) : a.status = "pending"
====
